---------------------------- MODULE Spec2Model ----------------------------
(***************************************************************************)
(* A model of the renterd worker's download engine and price-table cache.  *)
(*                                                                         *)
(*   worker/pricetable.go : priceTables (PriceTable, Update)               *)
(*   worker/download.go   : downloadManager, downloader, slabDownload,     *)
(*                          slabsForDownload                               *)
(*                                                                         *)
(* Each subsystem has its own specification over its own variables; the    *)
(* variables of the other subsystems stay at their initial values.         *)
(***************************************************************************)
EXTENDS Integers, Sequences, FiniteSets, TLC

Nil == "nil"                        \* a nil error
None == 0                          \* a nil pointer to an update object, no lock holder
NoPt == [uid |-> 0, validity |-> 0] \* a nil *HostPriceTable

(***************************************************************************)
(* Bounds of the model.                                                    *)
(***************************************************************************)
NumCallers == 3      \* calls into the price-table cache, one goroutine each
StartTime == 100     \* the clock at the start, seconds after the zero time.Time
MaxTime == StartTime + 90   \* the clock stops advancing here

NumHostKeys == 3     \* hosts known to the download manager
MaxDownloaders == 4  \* downloader instances created in one behaviour
MaxStops == 2        \* calls of downloadManager.Stop in one behaviour
MaxLaunches == 2     \* sector requests handed to downloadManager.launch
MaxRefreshes == 2    \* calls of refreshDownloaders on their own
MaxReqs == 4         \* sector requests enqueued on the downloader

MaxSlabs == 4         \* slabs of the downloaded object
SlabLength == 2       \* bytes of each slab slice of the object
MaxShards == 3
MaxTracks == 5
WordBits == 5         \* bits of the model's uint32 (32 in the source)

\* math.MaxUint32 at the model's word width: slab offsets and lengths wrap
\* modulo MaxUint32 + 1 as the uint32 fields of object.SlabSlice do
MaxUint32 == 2^WordBits - 1

Callers == 1..NumCallers
HostKeys == 1..NumHostKeys
Hosts == {"h1"}
TickSteps == {30}
Validities == {30, 60}
TransportErrors == {"transport failure"}

(***************************************************************************)
(* Program constants.                                                      *)
(***************************************************************************)
priceTableValidityLeeway == 30
maxConcurrentSectorsPerHost == 3
maxConcurrentSlabsPerDownload == 3

VARIABLES
    \* ---- price-table cache (worker/pricetable.go) ----
    now,            \* wall clock, seconds
    ptPt,           \* ptPt[h]: priceTable.pt of host h (Nil, or a price table)
    ptExpiry,       \* ptExpiry[h]: priceTable.expiry of host h
    ongoingUpdate,  \* ongoingUpdate[h]: priceTable.ongoingUpdate (Nil or update id)
    ptMu,           \* ptMu[h]: holder of priceTable.mu (Nil or a caller)
    updates,        \* updates[u]: the priceTableUpdate objects {err, done, pt}
    nextUpdate,     \* number of priceTableUpdate objects allocated
    callPc,         \* callPc[p]: position of caller p
    callHost,       \* callHost[p]: hk argument of the running call
    callOngoing,    \* callOngoing[p]: the local variable ongoing
    callCtxDone,    \* callCtxDone[p]: the caller's ctx is cancelled
    callHpt,        \* callHpt[p]: local hpt (Nil or a price table)
    callErr,        \* callErr[p]: local err (Nil or an error)
    callRet,        \* callRet[p]: what the last call of p returned
    ptPanicked,     \* the process died on a panic
    rpcCount,       \* rpcCount[h]: transport-level refreshes started for h
    \* ---- download manager (worker/download.go) ----
    mgrConfig,      \* downloadManager.maxOverdrive and .overdriveTimeout
    mgrStopped,     \* downloadManager.stopChan is closed
    mgrOngoing,     \* downloadManager.ongoing: the registered slab downloads
    downloaders,    \* downloadManager.downloaders: host key -> downloader (0: none)
    dlStopped,      \* the downloaders whose stopChan is closed
    dlQueue,        \* dlQueue[d]: downloader d's queue
    mgrPanic,       \* "none", or the panic the process died on
    stopCalls,      \* calls of Stop so far
    refreshCalls,   \* calls of refreshDownloaders so far
    launchCalls,    \* calls of downloadManager.launch so far
    \* ---- one DownloadObject call (worker/download.go) ----
    doPc,           \* position of the DownloadObject call
    doArgs,         \* its arguments: the object's slabs, offset, length, contracts
    doSlabs,        \* slabs: the result of slabsForDownload
    doCtxDone,      \* ctx of the call is cancelled
    respChanClosed, \* responseChan is closed
    nextSlabChan,   \* tokens in nextSlabChan (capacity 1)
    prodPc,         \* position of the goroutine launching the slab downloads
    slabIndex,      \* its slabIndex
    respIndex,      \* respIndex of the collecting loop
    responses,      \* the indices buffered in responses
    sink,           \* the slab indices recovered into the writer, in order
    doRet,          \* what DownloadObject returned
    slabDl,         \* slabDl[i]: the downloadSlab goroutine of slab i
    \* ---- one downloader (worker/download.go) ----
    queue,          \* downloader.queue: the number of requests queued
    signalWorkChan, \* tokens in downloader.signalWorkChan (capacity 1)
    stopChan,       \* downloader.stopChan is closed
    pqPc,           \* position of processQueue
    batch,          \* requests of the batch processBatch has still to hand out
    worker,         \* worker[w]: position of worker w of the running batch
    inflight,       \* inflight of the running batch
    doneChan,       \* doneChan of the running batch is closed
    reqsChan,       \* reqsChan of the running batch is closed
    feeder,         \* position of the goroutine that keeps the requests coming
    oldFeeders,     \* such goroutines of earlier batches that still run
    enqueued,       \* calls of enqueue so far
    batches,        \* batches started so far
    \* ---- one call of slabsForDownload (worker/download.go) ----
    sfd,            \* its arguments and, once it has run, its outcome
    \* ---- one slab download (worker/download.go) ----
    sdl,            \* the slabDownload, its downloadShards and its overdrive
    \* ---- the failure tracking of one downloader (worker/download.go) ----
    tfd,            \* consecutiveFailures, the estimator's samples, the calls
    \* ---- refreshDownloaders on its own (worker/download.go) ----
    want,           \* the host keys of the contracts of the last call
    \* ---- the queue of one downloader, request by request ----
    fq,             \* the requests enqueued, popped and executed, in order
    \* ---- one call of downloadSpeed (worker/download.go) ----
    spd,            \* the slab download's size and age, and the outcome
    \* ---- the migrator (autopilot/migrator.go) ----
    mig,            \* migrating, migratingLastStart and the runs
    \* ---- one contract store (stores) ----
    hs              \* its hostSets, its file and the last call

ptVars == <<now, ptPt, ptExpiry, ongoingUpdate, ptMu, updates, nextUpdate,
            callPc, callHost, callOngoing, callCtxDone, callHpt, callErr,
            callRet, ptPanicked, rpcCount>>

mgrVars == <<mgrConfig, mgrStopped, mgrOngoing, downloaders, dlStopped,
             dlQueue, mgrPanic, stopCalls, refreshCalls, launchCalls>>

doVars == <<doPc, doArgs, doSlabs, doCtxDone, respChanClosed, nextSlabChan,
            prodPc, slabIndex, respIndex, responses, sink, doRet, slabDl>>

downloaderVars == <<queue, signalWorkChan, stopChan, pqPc, batch, worker,
                    inflight, doneChan, reqsChan, feeder, oldFeeders, enqueued,
                    batches>>

\* the variables of the specifications added later
moreVars == <<sfd, sdl, tfd, want, fq, spd, mig, hs>>

vars == <<ptVars, mgrVars, doVars, downloaderVars, moreVars>>

notPtVars == <<mgrVars, doVars, downloaderVars, moreVars>>
notMgrVars == <<ptVars, doVars, downloaderVars, moreVars>>
notDoVars == <<ptVars, downloaderVars, moreVars>>
notDownloaderVars == <<ptVars, mgrVars, doVars, moreVars>>
notSfdVars == <<ptVars, mgrVars, doVars, downloaderVars, sdl, tfd, want, fq, spd,
               mig, hs>>


---------------------------------------------------------------------------
(***************************************************************************)
(* worker/download.go: the download manager                                *)
(***************************************************************************)

\* the arguments of newDownloadManager
Config(mo, ot) == [maxOverdrive |-> mo, overdriveTimeout |-> ot]

PanicClose == "panic: close of closed channel"

\* newDownloadManager
InitManager(configs) ==
    /\ mgrConfig \in configs
    /\ mgrStopped = FALSE
    /\ mgrOngoing = {}
    /\ downloaders = [h \in HostKeys |-> 0]
    /\ dlStopped = {}
    /\ dlQueue = <<>>
    /\ mgrPanic = "none"
    /\ stopCalls = 0
    /\ refreshCalls = 0
    /\ launchCalls = 0

\* refreshDownloaders(contracts), the whole call under mgr.mu: close and
\* delete the downloaders of hosts not in contracts, create the missing ones.
\* Closing a stopChan that is closed already panics.
refreshDownloaders(contracts) ==
    LET pruned == {h \in HostKeys : downloaders[h] # 0 /\ h \notin contracts}
        missing == {h \in contracts : downloaders[h] = 0}
        rank(h) == Cardinality({g \in missing : g <= h})
    IN  /\ refreshCalls' = refreshCalls + 1
        /\ IF \E h \in pruned : downloaders[h] \in dlStopped
           THEN /\ mgrPanic' = PanicClose
                /\ UNCHANGED <<downloaders, dlStopped, dlQueue>>
           ELSE /\ Len(dlQueue) + Cardinality(missing) <= MaxDownloaders
                /\ dlStopped' = dlStopped \cup {downloaders[h] : h \in pruned}
                /\ downloaders' =
                       [h \in HostKeys |->
                           IF h \in pruned THEN 0
                           ELSE IF h \in missing THEN Len(dlQueue) + rank(h)
                           ELSE downloaders[h]]
                /\ dlQueue' = dlQueue \o [k \in 1..Cardinality(missing) |-> <<>>]
                /\ UNCHANGED mgrPanic

\* a call of refreshDownloaders on its own (DownloadSlab and DownloadObject
\* of other downloads call it with their contracts), its want map kept
RefreshDownloaders(contracts) ==
    /\ mgrPanic = "none"
    /\ refreshCalls < MaxRefreshes
    /\ refreshDownloaders(contracts)
    /\ want' = contracts
    /\ UNCHANGED <<mgrConfig, mgrStopped, mgrOngoing, stopCalls, launchCalls>>
    /\ UNCHANGED <<ptVars, doVars, downloaderVars, sfd, sdl, tfd, fq, spd, mig,
                   hs>>

\* Stop, lines 374-381: no check whether the manager is stopped already
Stop ==
    /\ mgrPanic = "none"
    /\ stopCalls < MaxStops
    /\ stopCalls' = stopCalls + 1
    /\ IF mgrStopped
       THEN \* close(mgr.stopChan) on a closed channel
            /\ mgrPanic' = PanicClose
            /\ UNCHANGED <<mgrStopped, dlStopped>>
       ELSE /\ mgrStopped' = TRUE
            /\ IF \E h \in HostKeys : downloaders[h] # 0 /\ downloaders[h] \in dlStopped
               THEN /\ mgrPanic' = PanicClose
                    /\ UNCHANGED dlStopped
               ELSE /\ dlStopped' = dlStopped \cup
                           {downloaders[h] : h \in {g \in HostKeys : downloaders[g] # 0}}
                    /\ UNCHANGED mgrPanic
    /\ UNCHANGED <<mgrConfig, mgrOngoing, downloaders, dlQueue,
                   refreshCalls, launchCalls>>
    /\ UNCHANGED notMgrVars

\* downloadManager.launch(req) for a request to host h: enqueue on the
\* host's downloader, if there is one
MgrLaunch(h) ==
    /\ mgrPanic = "none"
    /\ launchCalls < MaxLaunches
    /\ launchCalls' = launchCalls + 1
    /\ IF downloaders[h] # 0
       THEN dlQueue' = [dlQueue EXCEPT ![downloaders[h]] = Append(@, launchCalls + 1)]
       ELSE UNCHANGED dlQueue
    /\ UNCHANGED <<mgrConfig, mgrStopped, mgrOngoing, downloaders, dlStopped,
                   mgrPanic, stopCalls, refreshCalls>>
    /\ UNCHANGED notMgrVars

NextManager ==
    \/ Stop
    \/ \E contracts \in SUBSET HostKeys : RefreshDownloaders(contracts)
    \/ \E h \in HostKeys : MgrLaunch(h)


---------------------------------------------------------------------------
(***************************************************************************)
(* worker/pricetable.go                                                    *)
(***************************************************************************)

\* what a call returned: kind is "none" (still running), "ok", "err", "panic"
\* or "pricetable"; role is "leader", "waiter" or "reader"
Ret(kind, role, upd, pt, err, valid) ==
    [kind |-> kind, role |-> role, upd |-> upd, pt |-> pt, err |-> err,
     valid |-> valid]

NoRet == Ret("none", "none", None, NoPt, Nil, FALSE)

ErrWaiterTimeout == "timeout while blocking for pricetable update"

InitPriceTables ==
    /\ now = StartTime
    /\ ptPt = [h \in Hosts |-> NoPt]
    /\ ptExpiry = [h \in Hosts |-> 0]
    /\ ongoingUpdate = [h \in Hosts |-> None]
    /\ ptMu = [h \in Hosts |-> None]
    /\ updates = <<>>
    /\ nextUpdate = 0
    /\ callPc = [p \in Callers |-> "idle"]
    /\ callHost = [p \in Callers |-> "h1"]
    /\ callOngoing = [p \in Callers |-> None]
    /\ callCtxDone = [p \in Callers |-> FALSE]
    /\ callHpt = [p \in Callers |-> NoPt]
    /\ callErr = [p \in Callers |-> Nil]
    /\ callRet = [p \in Callers |-> NoRet]
    /\ ptPanicked = FALSE
    /\ rpcCount = [h \in Hosts |-> 0]

\* time.Now() advancing
Tick ==
    /\ ~ptPanicked
    /\ \E d \in TickSteps :
         /\ now + d <= MaxTime
         /\ now' = now + d
    /\ UNCHANGED notPtVars
    /\ UNCHANGED <<ptPt, ptExpiry, ongoingUpdate, ptMu, updates, nextUpdate,
                   callPc, callHost, callOngoing, callCtxDone, callHpt,
                   callErr, callRet, ptPanicked, rpcCount>>

\* the caller's context expires or is cancelled while its call is running
CtxCancel(p) ==
    /\ ~ptPanicked
    /\ callPc[p] \in {"upd_wait", "upd_rpc"}
    /\ ~callCtxDone[p]
    /\ callCtxDone' = [callCtxDone EXCEPT ![p] = TRUE]
    /\ UNCHANGED notPtVars
    /\ UNCHANGED <<now, ptPt, ptExpiry, ongoingUpdate, ptMu, updates,
                   nextUpdate, callPc, callHost, callOngoing, callHpt,
                   callErr, callRet, ptPanicked, rpcCount>>

\* Update, lines 61-75: under pt.mu, join the ongoing update or create one
UpdateBeginNoRegister(p, h) ==
    /\ ~ptPanicked
    /\ callPc[p] = "idle"
    /\ ptMu[h] = None
    /\ callHost' = [callHost EXCEPT ![p] = h]
    /\ callCtxDone' = [callCtxDone EXCEPT ![p] = FALSE]
    /\ callHpt' = [callHpt EXCEPT ![p] = NoPt]
    /\ callErr' = [callErr EXCEPT ![p] = Nil]
    /\ callRet' = [callRet EXCEPT ![p] = NoRet]
    /\ nextUpdate' = nextUpdate + 1
    /\ updates' = Append(updates, [err |-> Nil, done |-> FALSE, pt |-> NoPt])
    /\ callOngoing' = [callOngoing EXCEPT ![p] = nextUpdate + 1]
    /\ callPc' = [callPc EXCEPT ![p] = "upd_rpc"]
    /\ rpcCount' = [rpcCount EXCEPT ![h] = @ + 1]
    /\ UNCHANGED notPtVars
    /\ UNCHANGED <<now, ptPt, ptExpiry, ptMu, ptPanicked, ongoingUpdate>>

UpdateBegin(p, h) ==
    /\ ~ptPanicked
    /\ callPc[p] = "idle"
    /\ ptMu[h] = None
    /\ callHost' = [callHost EXCEPT ![p] = h]
    /\ callCtxDone' = [callCtxDone EXCEPT ![p] = FALSE]
    /\ callHpt' = [callHpt EXCEPT ![p] = NoPt]
    /\ callErr' = [callErr EXCEPT ![p] = Nil]
    /\ callRet' = [callRet EXCEPT ![p] = NoRet]
    /\ IF ongoingUpdate[h] = None
       THEN \* performUpdate = true; the transport is entered next
                    /\ nextUpdate' = nextUpdate + 1
            /\ updates' = Append(updates, [err |-> Nil, done |-> FALSE, pt |-> NoPt])
            /\ ongoingUpdate' = [ongoingUpdate EXCEPT ![h] = nextUpdate + 1]
            /\ callOngoing' = [callOngoing EXCEPT ![p] = nextUpdate + 1]
            /\ callPc' = [callPc EXCEPT ![p] = "upd_rpc"]
            /\ rpcCount' = [rpcCount EXCEPT ![h] = @ + 1]
       ELSE /\ callOngoing' = [callOngoing EXCEPT ![p] = ongoingUpdate[h]]
            /\ callPc' = [callPc EXCEPT ![p] = "upd_wait"]
            /\ UNCHANGED <<nextUpdate, updates, ongoingUpdate, rpcCount>>
    /\ UNCHANGED notPtVars
    /\ UNCHANGED <<now, ptPt, ptExpiry, ptMu, ptPanicked>>

\* Update, lines 80-82: a waiter's select takes <-ctx.Done()
WaiterTimeoutCancelsLeader(p) ==
    /\ ~ptPanicked
    /\ callPc[p] = "upd_wait"
    /\ callCtxDone[p]
    /\ callRet' = [callRet EXCEPT ![p] =
           Ret("err", "waiter", callOngoing[p], NoPt, ErrWaiterTimeout, FALSE)]
    /\ callPc' = [callPc EXCEPT ![p] = "returned"]
    /\ callOngoing' = [callOngoing EXCEPT ![p] = None]
    /\ callCtxDone' = [callCtxDone EXCEPT ![p] = FALSE]
    /\ ongoingUpdate' = [ongoingUpdate EXCEPT ![callHost[p]] = None]
    /\ UNCHANGED notPtVars
    /\ UNCHANGED <<now, ptPt, ptExpiry, ptMu, updates, nextUpdate,
                   callHost, callHpt, callErr, ptPanicked, rpcCount>>

WaiterTimeout(p) ==
    /\ ~ptPanicked
    /\ callPc[p] = "upd_wait"
    /\ callCtxDone[p]
    /\ callRet' = [callRet EXCEPT ![p] =
           Ret("err", "waiter", callOngoing[p], NoPt, ErrWaiterTimeout, FALSE)]
    /\ callPc' = [callPc EXCEPT ![p] = "returned"]
    /\ callOngoing' = [callOngoing EXCEPT ![p] = None]
    /\ callCtxDone' = [callCtxDone EXCEPT ![p] = FALSE]
    /\ UNCHANGED notPtVars
    /\ UNCHANGED <<now, ptPt, ptExpiry, ongoingUpdate, ptMu, updates,
                   nextUpdate, callHost, callHpt, callErr, ptPanicked,
                   rpcCount>>

\* Update, lines 83-89: a waiter's select takes <-ongoing.done and returns
\* ongoing.err or *ongoing.pt; dereferencing a nil ongoing.pt panics
WaiterResult(p) ==
    /\ ~ptPanicked
    /\ callPc[p] = "upd_wait"
    /\ updates[callOngoing[p]].done
    /\ LET u == updates[callOngoing[p]] IN
         IF u.err # Nil
         THEN /\ callRet' = [callRet EXCEPT ![p] =
                     Ret("err", "waiter", callOngoing[p], NoPt, u.err, FALSE)]
              /\ callPc' = [callPc EXCEPT ![p] = "returned"]
              /\ UNCHANGED ptPanicked
         ELSE IF u.pt = NoPt
         THEN /\ callRet' = [callRet EXCEPT ![p] =
                     Ret("panic", "waiter", callOngoing[p], NoPt, Nil, FALSE)]
              /\ callPc' = [callPc EXCEPT ![p] = "panicked"]
              /\ ptPanicked' = TRUE
         ELSE /\ callRet' = [callRet EXCEPT ![p] =
                     Ret("ok", "waiter", callOngoing[p], u.pt, Nil, FALSE)]
              /\ callPc' = [callPc EXCEPT ![p] = "returned"]
              /\ UNCHANGED ptPanicked
    /\ callOngoing' = [callOngoing EXCEPT ![p] = None]
    /\ callCtxDone' = [callCtxDone EXCEPT ![p] = FALSE]
    /\ UNCHANGED notPtVars
    /\ UNCHANGED <<now, ptPt, ptExpiry, ongoingUpdate, ptMu, updates,
                   nextUpdate, callHost, callHpt, callErr, rpcCount>>

\* Update, lines 93-97: withTransport / RPCPriceTable returns to the leader
TransportReturn(p) ==
    /\ ~ptPanicked
    /\ callPc[p] = "upd_rpc"
    /\ \/ \E v \in Validities :
            /\ callHpt' = [callHpt EXCEPT ![p] =
                   [uid |-> callOngoing[p], validity |-> v]]
            /\ UNCHANGED callErr
       \/ \E e \in TransportErrors :
            /\ callErr' = [callErr EXCEPT ![p] = e]
            /\ UNCHANGED callHpt
       \/ /\ callCtxDone[p]
          /\ callErr' = [callErr EXCEPT ![p] = "context canceled"]
          /\ UNCHANGED callHpt
    /\ callPc' = [callPc EXCEPT ![p] = "upd_lock"]
    /\ UNCHANGED notPtVars
    /\ UNCHANGED <<now, ptPt, ptExpiry, ongoingUpdate, ptMu, updates,
                   nextUpdate, callHost, callOngoing, callCtxDone, callRet,
                   ptPanicked, rpcCount>>

\* Update, lines 99-104: the leader takes pt.mu and, on success, stores pt.pt
LeaderStorePtAlways(p) ==
    /\ ~ptPanicked
    /\ callPc[p] = "upd_lock"
    /\ ptMu[callHost[p]] = None
    /\ ptMu' = [ptMu EXCEPT ![callHost[p]] = p]
    /\ ptPt' = [ptPt EXCEPT ![callHost[p]] = callHpt[p]]
    /\ callPc' = [callPc EXCEPT ![p] = "upd_store"]
    /\ UNCHANGED notPtVars
    /\ UNCHANGED <<now, ptExpiry, ongoingUpdate, updates, nextUpdate,
                   callHost, callOngoing, callCtxDone, callHpt, callErr,
                   callRet, ptPanicked, rpcCount>>

LeaderStorePt(p) ==
    /\ ~ptPanicked
    /\ callPc[p] = "upd_lock"
    /\ ptMu[callHost[p]] = None
    /\ ptMu' = [ptMu EXCEPT ![callHost[p]] = p]
    /\ IF callErr[p] = Nil
       THEN ptPt' = [ptPt EXCEPT ![callHost[p]] = callHpt[p]]
       ELSE UNCHANGED ptPt
    /\ callPc' = [callPc EXCEPT ![p] = "upd_store"]
    /\ UNCHANGED notPtVars
    /\ UNCHANGED <<now, ptExpiry, ongoingUpdate, updates, nextUpdate,
                   callHost, callOngoing, callCtxDone, callHpt, callErr,
                   callRet, ptPanicked, rpcCount>>

\* Update, lines 105-112: store the expiry, publish err, close done, clear
\* ongoingUpdate, release pt.mu and return (hpt, err)
LeaderFinish(p) ==
    /\ ~ptPanicked
    /\ callPc[p] = "upd_store"
    /\ LET h == callHost[p] IN
         /\ IF callErr[p] = Nil
            THEN ptExpiry' = [ptExpiry EXCEPT ![h] = now + callHpt[p].validity]
            ELSE UNCHANGED ptExpiry
         /\ updates' = [updates EXCEPT ![callOngoing[p]] =
                [err |-> callErr[p], done |-> TRUE, pt |-> @.pt]]
         /\ ongoingUpdate' = [ongoingUpdate EXCEPT ![h] = None]
         /\ ptMu' = [ptMu EXCEPT ![h] = None]
    /\ callRet' = [callRet EXCEPT ![p] =
           IF callErr[p] = Nil
           THEN Ret("ok", "leader", callOngoing[p], callHpt[p], Nil, FALSE)
           ELSE Ret("err", "leader", callOngoing[p], NoPt, callErr[p], FALSE)]
    /\ callPc' = [callPc EXCEPT ![p] = "returned"]
    /\ callOngoing' = [callOngoing EXCEPT ![p] = None]
    /\ callCtxDone' = [callCtxDone EXCEPT ![p] = FALSE]
    /\ callHpt' = [callHpt EXCEPT ![p] = NoPt]
    /\ callErr' = [callErr EXCEPT ![p] = Nil]
    /\ UNCHANGED notPtVars
    /\ UNCHANGED <<now, ptPt, nextUpdate, callHost, ptPanicked, rpcCount>>

\* PriceTable, lines 50-56
PriceTableValid(expiry, t) == t < expiry + priceTableValidityLeeway

PriceTable(p, h) ==
    /\ ~ptPanicked
    /\ callPc[p] = "idle"
    /\ callHost' = [callHost EXCEPT ![p] = h]
    /\ callPc' = [callPc EXCEPT ![p] = "returned"]
    /\ callRet' = [callRet EXCEPT ![p] =
           IF ptPt[h] = NoPt
           THEN Ret("pricetable", "reader", None, NoPt, Nil, FALSE)
           ELSE Ret("pricetable", "reader", None, ptPt[h], Nil,
                    PriceTableValid(ptExpiry[h], now))]
    /\ UNCHANGED notPtVars
    /\ UNCHANGED <<now, ptPt, ptExpiry, ongoingUpdate, ptMu, updates,
                   nextUpdate, callOngoing, callCtxDone, callHpt,
                   callErr, ptPanicked, rpcCount>>

NextPriceTables ==
    \/ Tick
    \/ \E p \in Callers : CtxCancel(p)
    \/ \E p \in Callers, h \in Hosts : UpdateBegin(p, h)
    \/ \E p \in Callers : WaiterTimeout(p)
    \/ \E p \in Callers : WaiterResult(p)
    \/ \E p \in Callers : TransportReturn(p)
    \/ \E p \in Callers : LeaderStorePt(p)
    \/ \E p \in Callers : LeaderFinish(p)
    \/ \E p \in Callers, h \in Hosts : PriceTable(p, h)


---------------------------------------------------------------------------
(***************************************************************************)
(* worker/download.go: slabsForDownload                                    *)
(***************************************************************************)

PanicIndex == "panic: index out of range"
PanicSend == "panic: send on closed channel"
PanicOverflow == "panic: slabsForDownload: overflow detected"
ErrNoHosts == "not enough hosts available to download the slab"

\* the error of lines 234-235, with the numbers it prints
NotEnoughHosts(avail, minShards) ==
    ErrNoHosts \o ": " \o ToString(avail) \o "/" \o ToString(minShards)

\* an object.SlabSlice: erasure-coding parameters, the hosts of its shards,
\* and (Offset, Length) within the slab
SlabSlice(minShards, shards, offset, length) ==
    [MinShards |-> minShards, Shards |-> shards, Offset |-> offset,
     Length |-> length]

\* lines 1110-1117: the index the first loop cuts at, and what is left of
\* offset; without a break the slice keeps all its slabs
RECURSIVE firstLoop(_, _, _)
firstLoop(slabs, i, firstOffset) ==
    IF i > Len(slabs) THEN [start |-> 1, rest |-> firstOffset]
    ELSE IF firstOffset <= slabs[i].Length THEN [start |-> i, rest |-> firstOffset]
    ELSE firstLoop(slabs, i + 1, firstOffset - slabs[i].Length)

\* lines 1121-1128: the index the second loop cuts after, and what is left
\* of length
RECURSIVE lastLoop(_, _, _)
lastLoop(slabs, i, lastLength) ==
    IF i > Len(slabs) THEN [end |-> Len(slabs), rest |-> lastLength]
    ELSE IF lastLength <= slabs[i].Length THEN [end |-> i, rest |-> lastLength]
    ELSE lastLoop(slabs, i + 1, lastLength - slabs[i].Length)

\* lines 1097-1131; Offset and Length are uint32
slabsForDownload(slabs, offset, length) ==
    LET f == firstLoop(slabs, 1, offset)
        cut == SubSeq(slabs, f.start, Len(slabs))
    IN  IF cut = <<>> THEN [panic |-> PanicIndex, slabs |-> <<>>]
        ELSE IF f.rest > MaxUint32 THEN [panic |-> PanicOverflow, slabs |-> <<>>]
        ELSE
        LET trimmed == [cut EXCEPT ![1].Offset = (@ + f.rest) % (MaxUint32 + 1),
                                   ![1].Length = (@ - f.rest) % (MaxUint32 + 1)]
            l == lastLoop(trimmed, 1, length)
            kept == SubSeq(trimmed, 1, l.end)
        IN  IF l.rest > MaxUint32 THEN [panic |-> PanicOverflow, slabs |-> <<>>]
            ELSE [panic |-> "none",
                  slabs |-> [kept EXCEPT ![Len(kept)].Length = l.rest]]

---------------------------------------------------------------------------
(***************************************************************************)
(* worker/download.go: DownloadObject, downloadSlab, downloadShards        *)
(***************************************************************************)

SlabIdx == 0..(MaxSlabs - 1)
\* the objects downloaded: n slabs of SlabLength bytes each, one of two
\* shards enough to recover a slab
Object(n) == [k \in 1..n |-> SlabSlice(1, <<1, 2>>, 0, SlabLength)]

\* the byte ranges asked for of an object of n slabs
Ranges(n) ==
    {<<0, 0>>, <<1, 0>>, <<0, n * SlabLength>>}

ContractSets == {{1, 2}, {}}

NoSlabDl ==
    [pc |-> "none", numCompleted |-> 0, numInflight |-> 0, numLaunched |-> 0,
     unassigned |-> 0, triggered |-> FALSE, done |-> FALSE,
     next |-> FALSE, err |-> Nil]

InitDownloadObject ==
    /\ doPc = "idle"
    /\ doArgs = [slabs |-> <<>>, offset |-> 0, length |-> 0, contracts |-> {}]
    /\ doSlabs = <<>>
    /\ doCtxDone = FALSE
    /\ respChanClosed = FALSE
    /\ nextSlabChan = 0
    /\ prodPc = "none"
    /\ slabIndex = 0
    /\ respIndex = 0
    /\ responses = {}
    /\ sink = <<>>
    /\ doRet = "none"
    /\ slabDl = [i \in SlabIdx |-> NoSlabDl]

Running == mgrPanic = "none"

\* the count of lines 227-232 that takes every shard for available
availableUnchecked(slab, contracts) == Len(slab.Shards)

\* lines 227-232: the shards of a slab on a host of the contracts
available(slab, contracts) ==
    Cardinality({k \in 1..Len(slab.Shards) : slab.Shards[k] \in contracts})

\* lines 223-241, one iteration of the goroutine launching the slab downloads:
\* the next slab, if there is one, gets its download launched, or the error
\* of a slab with too few hosts is to be sent
dispatch(slabs, contracts, index, dls) ==
    IF index < Len(slabs)
    THEN IF available(slabs[index + 1], contracts) < slabs[index + 1].MinShards
         THEN [pc |-> "senderr", slabIndex |-> index, slabDl |-> dls]
         ELSE [pc |-> "wait", slabIndex |-> index + 1,
               slabDl |-> [dls EXCEPT ![index] = [NoSlabDl EXCEPT !.pc = "new"]]]
    ELSE [pc |-> "wait", slabIndex |-> index, slabDl |-> dls]

\* DownloadObject, lines 179-250: up to the collection of the responses, with
\* the first iteration of the goroutine it launches
DownloadObject(o, offset, length, contracts) ==
    /\ Running
    /\ doPc = "idle"
    /\ doArgs' = [slabs |-> o, offset |-> offset, length |-> length,
                  contracts |-> contracts]
    /\ LET r == slabsForDownload(o, offset, length)
           d == dispatch(r.slabs, contracts, 0, slabDl)
       IN
       IF r.panic # "none"
       THEN /\ mgrPanic' = r.panic
            /\ doPc' = "panicked"
            /\ UNCHANGED <<downloaders, dlStopped, dlQueue, refreshCalls,
                           doSlabs, nextSlabChan, prodPc, doRet, slabIndex,
                           slabDl>>
       ELSE IF Len(r.slabs) = 0
       THEN /\ doPc' = "returned"
            /\ doRet' = "ok"
            /\ UNCHANGED <<downloaders, dlStopped, dlQueue, refreshCalls,
                           mgrPanic, doSlabs, nextSlabChan, prodPc, slabIndex,
                           slabDl>>
       ELSE /\ refreshDownloaders(contracts)
            /\ doSlabs' = r.slabs
            /\ nextSlabChan' = 1
            /\ IF mgrPanic' = "none"
               THEN /\ doPc' = "collect"
                    /\ prodPc' = d.pc
                    /\ slabIndex' = d.slabIndex
                    /\ slabDl' = d.slabDl
               ELSE /\ doPc' = "panicked"
                    /\ UNCHANGED <<prodPc, slabIndex, slabDl>>
            /\ UNCHANGED doRet
    /\ UNCHANGED <<mgrConfig, mgrStopped, mgrOngoing, stopCalls, launchCalls>>
    /\ UNCHANGED <<doCtxDone, respChanClosed, respIndex, responses, sink>>
    /\ UNCHANGED notDoVars

\* the caller cancels ctx while the call is running
CallerCancel ==
    /\ Running
    /\ doPc = "collect"
    /\ ~doCtxDone
    /\ doCtxDone' = TRUE
    /\ UNCHANGED <<doPc, doArgs, doSlabs, respChanClosed, nextSlabChan, prodPc,
                   slabIndex, respIndex, responses, sink, doRet, slabDl>>
    /\ UNCHANGED <<notDoVars, mgrVars>>

\* lines 243-248 and the next iteration: the goroutine takes the trigger and
\* launches the next slab download, or returns when ctx is done
launchNextSlab ==
    /\ Running
    /\ prodPc = "wait"
    /\ \/ /\ doCtxDone
          /\ prodPc' = "exited"
          /\ UNCHANGED <<nextSlabChan, slabIndex, slabDl>>
       \/ /\ nextSlabChan > 0
          /\ nextSlabChan' = nextSlabChan - 1
          /\ LET d == dispatch(doSlabs, doArgs.contracts, slabIndex, slabDl) IN
             /\ prodPc' = d.pc
             /\ slabIndex' = d.slabIndex
             /\ slabDl' = d.slabDl
    /\ UNCHANGED <<doPc, doArgs, doSlabs, doCtxDone, respChanClosed,
                   respIndex, responses, sink, doRet>>
    /\ UNCHANGED <<notDoVars, mgrVars>>

\* the shards of a slab that sit on a host with a downloader
launchable(slab) ==
    Cardinality({k \in 1..Len(slab.Shards) : downloaders[slab.Shards[k]] # 0})

\* nextRequest + launch on slab download sd: one more request in flight if a
\* shard on a host with a downloader is still unassigned
launch(sd) ==
    IF sd.unassigned > 0
    THEN [sd EXCEPT !.unassigned = @ - 1, !.numInflight = @ + 1,
                    !.numLaunched = @ + 1]
    ELSE sd

\* downloadShards, lines 917-923: launch MinShards requests, all or an error
RECURSIVE launchMinShards(_, _)
launchMinShards(sd, k) ==
    IF k = 0 THEN sd
    ELSE IF sd.unassigned = 0 THEN [sd EXCEPT !.err = "no hosts available"]
    ELSE launchMinShards(launch(sd), k - 1)

\* downloadSlab, lines 499-509, for a slab download that ended with err:
\* with ctx done it returns, else it waits to send its response
respond(err) ==
    IF doCtxDone
    THEN [NoSlabDl EXCEPT !.pc = "exit"]
    ELSE [NoSlabDl EXCEPT !.pc = "respond", !.err = err]

\* downloadSlab, lines 486-497: newSlabDownload registers the slab download
\* as ongoing, downloadShards launches the first requests
downloadSlab(i) ==
    /\ Running
    /\ slabDl[i].pc = "new"
    /\ mgrOngoing' = mgrOngoing \cup {i}
    /\ LET slab == doSlabs[i + 1]
           sd == launchMinShards([slabDl[i] EXCEPT !.unassigned = launchable(slab)],
                                 slab.MinShards)
       IN  slabDl' = [slabDl EXCEPT ![i] =
               IF sd.err = Nil THEN [sd EXCEPT !.pc = "loop"]
               ELSE respond(sd.err)]
    /\ UNCHANGED <<mgrConfig, mgrStopped, downloaders, dlStopped, dlQueue,
                   mgrPanic, stopCalls, refreshCalls, launchCalls>>
    /\ UNCHANGED <<doPc, doArgs, doSlabs, doCtxDone, respChanClosed,
                   nextSlabChan, prodPc, slabIndex, respIndex, responses, sink,
                   doRet>>
    /\ UNCHANGED notDoVars

doOnly(i, sd) ==
    /\ slabDl' = [slabDl EXCEPT ![i] = sd]
    /\ UNCHANGED <<doPc, doArgs, doSlabs, doCtxDone, respChanClosed,
                   nextSlabChan, prodPc, slabIndex, respIndex, responses, sink,
                   doRet>>
    /\ UNCHANGED <<notDoVars, mgrVars>>

\* receive, lines 1032-1053: the counters and (done, next) after a response
receive(sd, ok, minShards) ==
    IF ok
    THEN [sd EXCEPT !.numInflight = @ - 1,
                    !.numCompleted = @ + 1,
                    !.done = sd.numCompleted + 1 >= minShards,
                    !.next = sd.numCompleted + 1 + mgrConfig.maxOverdrive >= minShards]
    ELSE [sd EXCEPT !.numInflight = @ - 1, !.done = FALSE, !.next = FALSE]

\* downloadShards, lines 929-966: one response is received and a failed one
\* replaced; the next slab is triggered if fewer than
\* maxConcurrentSlabsPerDownload slab downloads are ongoing; when the loop
\* ends, the next slab is triggered if the slab is done, and finish tells
\* the outcome
collectResponse(i, ok) ==
    /\ Running
    /\ slabDl[i].pc = "loop"
    /\ LET minShards == doSlabs[i + 1].MinShards
           r == receive(slabDl[i], ok, minShards)
           sd == IF ~r.done /\ ~ok THEN launch(r) ELSE r
           inLoop == /\ sd.next
                     /\ ~sd.triggered
                     /\ Cardinality(mgrOngoing) < maxConcurrentSlabsPerDownload
           loopEnds == sd.numInflight = 0 \/ sd.done
           afterLoop == loopEnds /\ sd.done /\ ~sd.triggered
           failed == sd.numCompleted < minShards
       IN  /\ nextSlabChan' = IF inLoop \/ afterLoop THEN 1 ELSE nextSlabChan
           /\ slabDl' = [slabDl EXCEPT ![i] =
                IF loopEnds
                THEN respond(IF failed THEN "failed to download slab" ELSE Nil)
                ELSE [sd EXCEPT !.triggered = @ \/ (inLoop /\ nextSlabChan = 0)]]
    /\ UNCHANGED <<doPc, doArgs, doSlabs, doCtxDone, respChanClosed, prodPc,
                   slabIndex, respIndex, responses, sink, doRet>>
    /\ UNCHANGED <<notDoVars, mgrVars>>

\* a finishFn that leaves the slab in the ongoing set
finishFnKept(i) ==
    /\ slabDl' = [slabDl EXCEPT ![i] = [NoSlabDl EXCEPT !.pc = "finished"]]
    /\ UNCHANGED <<mgrConfig, mgrStopped, mgrOngoing, downloaders, dlStopped,
                   dlQueue, mgrPanic, stopCalls, refreshCalls, launchCalls>>
    /\ UNCHANGED <<doPc, doArgs, doSlabs, doCtxDone, respChanClosed,
                   nextSlabChan, prodPc, slabIndex, respIndex, responses, sink,
                   doRet>>
    /\ UNCHANGED notDoVars

\* the deferred finishFn of downloadSlab, lines 446-450
finishFn(i) ==
    /\ mgrOngoing' = mgrOngoing \ {i}
    /\ slabDl' = [slabDl EXCEPT ![i] = [NoSlabDl EXCEPT !.pc = "finished"]]
    /\ UNCHANGED <<mgrConfig, mgrStopped, downloaders, dlStopped, dlQueue,
                   mgrPanic, stopCalls, refreshCalls, launchCalls>>
    /\ UNCHANGED <<doPc, doArgs, doSlabs, doCtxDone, respChanClosed,
                   nextSlabChan, prodPc, slabIndex, respIndex, responses, sink,
                   doRet>>
    /\ UNCHANGED notDoVars

\* downloadShards, lines 929-937: stop or ctx.Done is taken in the loop; with
\* ctx done downloadSlab sends nothing (lines 500-502) and returns
loopAbort(i) ==
    /\ Running
    /\ slabDl[i].pc = "loop"
    /\ \/ /\ mgrStopped
          /\ doOnly(i, respond("download stopped"))
       \/ /\ doCtxDone
          /\ finishFn(i)

\* downloadSlab, lines 505-508: ctx is done before the response is taken
respondCtxDone(i) ==
    /\ Running
    /\ slabDl[i].pc = "respond"
    /\ doCtxDone
    /\ finishFn(i)

\* downloadSlab returns, its response sent or ctx done: the deferred finishFn
respondSent(i) ==
    /\ Running
    /\ slabDl[i].pc = "exit"
    /\ finishFn(i)

\* a send on responseChan after DownloadObject has closed it (lines 234 and
\* 507): the panic ends the process with all its goroutines
sendOnClosed ==
    /\ Running
    /\ respChanClosed
    /\ prodPc = "senderr" \/ \E i \in SlabIdx : slabDl[i].pc = "respond"
    /\ mgrPanic' = PanicSend
    /\ doPc' = "panicked"
    /\ prodPc' = "none"
    /\ slabDl' = [i \in SlabIdx |-> NoSlabDl]
    /\ responses' = {}
    /\ UNCHANGED <<mgrConfig, mgrStopped, mgrOngoing, downloaders, dlStopped,
                   dlQueue, stopCalls, refreshCalls, launchCalls>>
    /\ UNCHANGED <<doArgs, doSlabs, doCtxDone, respChanClosed, nextSlabChan,
                   slabIndex, respIndex, sink, doRet>>
    /\ UNCHANGED notDoVars

\* the consumer without its buffer: what arrived is written
flushOnArrival(buffered, idx) ==
    IF buffered = {} THEN <<>> ELSE <<CHOOSE j \in buffered : TRUE>>

\* the indices the flush loop of lines 270-285 recovers, given the buffered
\* indices: respIndex, respIndex + 1, ... while they are buffered
RECURSIVE flush(_, _)
flush(buffered, idx) ==
    IF idx \in buffered THEN <<idx>> \o flush(buffered, idx + 1) ELSE <<>>

\* the consumer that does not look at the error of the response
collectSlabUnchecked(i) ==
    /\ Running
    /\ doPc = "collect"
    /\ slabDl[i].pc = "respond"
    /\ ~respChanClosed
    /\ slabDl' = [slabDl EXCEPT ![i] = [NoSlabDl EXCEPT !.pc = "exit"]]
    /\ LET buffered == responses \cup {i}
                all == flush(buffered, respIndex)
            IN  \E written \in 0..Len(all) :
                  \* Recover fails on slab all[written + 1], or never
                  LET out == SubSeq(all, 1, written)
                      outSet == {out[k] : k \in 1..Len(out)}
                  IN  /\ sink' = sink \o out
                      /\ IF written < Len(all)
                         THEN /\ doRet' = "failed to recover slab"
                              /\ doPc' = "cancel"
                              /\ responses' = {}
                              /\ respIndex' = 0
                         ELSE IF respIndex + written = Len(doSlabs)
                         THEN /\ doRet' = "ok"
                              /\ doPc' = "cancel"
                              /\ responses' = {}
                              /\ respIndex' = 0
                         ELSE /\ responses' = buffered \ outSet
                              /\ respIndex' = respIndex + written
                              /\ UNCHANGED <<doRet, doPc>>
    /\ respChanClosed' = (doPc' = "cancel")
    /\ UNCHANGED <<doArgs, doSlabs, doCtxDone, nextSlabChan, prodPc, slabIndex>>
    /\ UNCHANGED <<notDoVars, mgrVars>>

\* DownloadObject, lines 263-294: a slab response is received; when the call
\* returns, its responses and respIndex are gone
collectSlab(i) ==
    /\ Running
    /\ doPc = "collect"
    /\ slabDl[i].pc = "respond"
    /\ ~respChanClosed
    /\ slabDl' = [slabDl EXCEPT ![i] = [NoSlabDl EXCEPT !.pc = "exit"]]
    /\ IF slabDl[i].err # Nil
       THEN /\ doRet' = slabDl[i].err
            /\ doPc' = "cancel"
            /\ responses' = {}
            /\ respIndex' = 0
            /\ UNCHANGED sink
       ELSE LET buffered == responses \cup {i}
                all == flush(buffered, respIndex)
            IN  \E written \in 0..Len(all) :
                  \* Recover fails on slab all[written + 1], or never
                  LET out == SubSeq(all, 1, written)
                      outSet == {out[k] : k \in 1..Len(out)}
                  IN  /\ sink' = sink \o out
                      /\ IF written < Len(all)
                         THEN /\ doRet' = "failed to recover slab"
                              /\ doPc' = "cancel"
                              /\ responses' = {}
                              /\ respIndex' = 0
                         ELSE IF respIndex + written = Len(doSlabs)
                         THEN /\ doRet' = "ok"
                              /\ doPc' = "cancel"
                              /\ responses' = {}
                              /\ respIndex' = 0
                         ELSE /\ responses' = buffered \ outSet
                              /\ respIndex' = respIndex + written
                              /\ UNCHANGED <<doRet, doPc>>
    /\ respChanClosed' = (doPc' = "cancel")
    /\ UNCHANGED <<doArgs, doSlabs, doCtxDone, nextSlabChan, prodPc, slabIndex>>
    /\ UNCHANGED <<notDoVars, mgrVars>>

\* DownloadObject, lines 259-267: the error of the producer, the manager's
\* stop or ctx.Done is received
collectOther ==
    /\ Running
    /\ doPc = "collect"
    /\ \/ /\ prodPc = "senderr"
          /\ ~respChanClosed
          /\ prodPc' = "exited"
          /\ doRet' = NotEnoughHosts(available(doSlabs[slabIndex + 1],
                                               doArgs.contracts),
                                     doSlabs[slabIndex + 1].MinShards)
       \/ /\ mgrStopped
          /\ doRet' = "manager was stopped"
          /\ UNCHANGED prodPc
       \/ /\ doCtxDone
          /\ doRet' = "download timed out"
          /\ UNCHANGED prodPc
    /\ doPc' = "cancel"
    /\ respChanClosed' = TRUE
    /\ responses' = {}
    /\ respIndex' = 0
    /\ UNCHANGED <<doArgs, doSlabs, doCtxDone, nextSlabChan, slabIndex, sink,
                   slabDl>>
    /\ UNCHANGED <<notDoVars, mgrVars>>

\* the deferred cancel of DownloadObject, line 198: it runs after the
\* deferred close(responseChan) of line 218, which the return steps include
returnDeferred ==
    /\ Running
    /\ doPc = "cancel"
    /\ doCtxDone' = TRUE
    /\ doPc' = "returned"
    /\ UNCHANGED <<doArgs, doSlabs, respChanClosed, nextSlabChan, prodPc,
                   slabIndex, respIndex, responses, sink, doRet, slabDl>>
    /\ UNCHANGED <<notDoVars, mgrVars>>

NextDownloadObject ==
    \/ \E n \in 0..MaxSlabs, contracts \in ContractSets :
         \E r \in Ranges(n) : DownloadObject(Object(n), r[1], r[2], contracts)
    \/ CallerCancel
    \/ ~mgrStopped /\ Stop
    \/ launchNextSlab
    \/ \E i \in SlabIdx : downloadSlab(i)
    \/ \E i \in SlabIdx, ok \in BOOLEAN : collectResponse(i, ok)
    \/ \E i \in SlabIdx : loopAbort(i)
    \/ \E i \in SlabIdx : respondCtxDone(i)
    \/ \E i \in SlabIdx : collectSlab(i)
    \/ \E i \in SlabIdx : respondSent(i)
    \/ collectOther
    \/ returnDeferred
    \/ sendOnClosed

\* the contract sets DownloadSlab is called with
SlabContracts == {{1, 2}, {1}, {}}

\* DownloadSlab, lines 297-330: the downloaders are refreshed, and with
\* enough hosts the goroutine of the slab download is launched
DownloadSlab(slab, contracts) ==
    /\ Running
    /\ doPc = "idle"
    /\ doArgs' = [slabs |-> <<slab>>, offset |-> 0, length |-> slab.Length,
                  contracts |-> contracts]
    /\ refreshDownloaders(contracts)
    /\ IF mgrPanic' # "none"
       THEN /\ doPc' = "panicked"
            /\ UNCHANGED <<doSlabs, doRet, slabDl>>
       ELSE IF available(slab, contracts) < slab.MinShards
       THEN /\ doPc' = "returned"
            /\ doRet' = NotEnoughHosts(available(slab, contracts),
                                       slab.MinShards)
            /\ UNCHANGED <<doSlabs, slabDl>>
       ELSE /\ doPc' = "await"
            /\ doSlabs' = <<slab>>
            /\ slabDl' = [slabDl EXCEPT ![0] = [NoSlabDl EXCEPT !.pc = "new"]]
            /\ UNCHANGED doRet
    /\ UNCHANGED <<mgrConfig, mgrStopped, mgrOngoing, stopCalls, launchCalls>>
    /\ UNCHANGED <<doCtxDone, respChanClosed, nextSlabChan, prodPc, slabIndex,
                   respIndex, responses, sink>>
    /\ UNCHANGED notDoVars

\* the call in progress or returned is a DownloadSlab call: there is a slab
\* download and no goroutine launching consecutive ones
SlabCall == doPc = "await" \/ (doSlabs # <<>> /\ prodPc = "none")

\* the caller of DownloadSlab cancels ctx while the call is running
CancelSlabCall ==
    /\ Running
    /\ doPc = "await"
    /\ ~doCtxDone
    /\ doCtxDone' = TRUE
    /\ UNCHANGED <<doPc, doArgs, doSlabs, respChanClosed, nextSlabChan, prodPc,
                   slabIndex, respIndex, responses, sink, doRet, slabDl>>
    /\ UNCHANGED <<notDoVars, mgrVars>>

\* downloadShards, lines 929-966, under DownloadSlab: one response is
\* received and a failed one replaced; nobody receives from the unbuffered
\* nextSlabChan of line 324, so no trigger is ever sent
awaitedResponse(ok) ==
    /\ Running
    /\ SlabCall
    /\ slabDl[0].pc = "loop"
    /\ LET minShards == doSlabs[1].MinShards
           r == receive(slabDl[0], ok, minShards)
           sd == IF ~r.done /\ ~ok THEN launch(r) ELSE r
           loopEnds == sd.numInflight = 0 \/ sd.done
           failed == sd.numCompleted < minShards
       IN  doOnly(0, IF loopEnds
                     THEN respond(IF failed THEN "failed to download slab"
                                            ELSE Nil)
                     ELSE sd)

\* DownloadSlab, lines 332-351: ctx is done, or the response is received and
\* the shards are reconstructed, or not
awaitSlab ==
    /\ Running
    /\ doPc = "await"
    /\ \/ /\ doCtxDone
          /\ doRet' = "context done"
          /\ UNCHANGED slabDl
       \/ /\ slabDl[0].pc = "respond"
          /\ slabDl' = [slabDl EXCEPT ![0] = [NoSlabDl EXCEPT !.pc = "exit"]]
          /\ IF slabDl[0].err # Nil
             THEN doRet' = slabDl[0].err
             ELSE doRet' \in {"ok", "failed to reconstruct"}
    /\ doPc' = "returned"
    /\ UNCHANGED <<doArgs, doSlabs, doCtxDone, respChanClosed, nextSlabChan,
                   prodPc, slabIndex, respIndex, responses, sink>>
    /\ UNCHANGED <<notDoVars, mgrVars>>

\* the calls of DownloadObject and of DownloadSlab
NextDownloads ==
    \/ ~SlabCall /\ NextDownloadObject
    \/ \E m \in 1..MaxShards, contracts \in SlabContracts :
         DownloadSlab(SlabSlice(m, <<1, 2>>, 0, SlabLength), contracts)
    \/ CancelSlabCall
    \/ SlabCall /\ ~mgrStopped /\ Stop
    \/ SlabCall /\ downloadSlab(0)
    \/ \E ok \in BOOLEAN : awaitedResponse(ok)
    \/ SlabCall /\ loopAbort(0)
    \/ SlabCall /\ respondCtxDone(0)
    \/ SlabCall /\ respondSent(0)
    \/ awaitSlab

---------------------------------------------------------------------------
(***************************************************************************)
(* worker/download.go: one downloader (processQueue, processBatch)         *)
(***************************************************************************)

Workers == 1..MaxReqs

\* newDownloader, lines 165-177, and the launch of processQueue, line 431
InitDownloader ==
    /\ queue = 0
    /\ signalWorkChan = 0
    /\ stopChan = FALSE
    /\ pqPc = "wait"
    /\ batch = 0
    /\ worker = [w \in Workers |-> "none"]
    /\ inflight = 0
    /\ doneChan = FALSE
    /\ reqsChan = FALSE
    /\ feeder = "none"
    /\ oldFeeders = 0
    /\ enqueued = 0
    /\ batches = 0

\* enqueue, lines 680-696
enqueue ==
    /\ enqueued < MaxReqs
    /\ enqueued' = enqueued + 1
    /\ queue' = queue + 1
    /\ signalWorkChan' = 1
    /\ UNCHANGED <<stopChan, pqPc, batch, worker, inflight, doneChan, reqsChan,
                   feeder, oldFeeders, batches>>
    /\ UNCHANGED notDownloaderVars

\* close(d.stopChan), by Stop (line 379) or refreshDownloaders (line 417)
closeStopChan ==
    /\ ~stopChan
    /\ stopChan' = TRUE
    /\ UNCHANGED <<queue, signalWorkChan, pqPc, batch, worker, inflight,
                   doneChan, reqsChan, feeder, oldFeeders, enqueued, batches>>
    /\ UNCHANGED notDownloaderVars

\* processQueue, lines 635-639: wait for work
waitForWork ==
    /\ pqPc = "wait"
    /\ \/ /\ signalWorkChan > 0
          /\ signalWorkChan' = 0
          /\ pqPc' = "fill"
       \/ /\ stopChan
          /\ pqPc' = "returned"
          /\ UNCHANGED signalWorkChan
    /\ UNCHANGED <<queue, stopChan, batch, worker, inflight, doneChan, reqsChan,
                   feeder, oldFeeders, enqueued, batches>>
    /\ UNCHANGED notDownloaderVars

Min(a, b) == IF a < b THEN a ELSE b

\* a batch without the limit on its size
fillBatchUnlimited(n) == {[batch |-> b, popped |-> n] : b \in 0..n}

\* fillBatch, lines 531-542, on a queue of n requests, any of which may be
\* done (its ctx cancelled) when it is popped: the sizes of the batch and the
\* numbers of requests popped
fillBatch(n) ==
    {[batch |-> b, popped |-> p] :
        b \in 0..Min(maxConcurrentSectorsPerHost, n), p \in 0..n} \cap
    {o \in [batch : 0..n, popped : 0..n] :
        /\ o.batch <= o.popped
        /\ o.batch < maxConcurrentSectorsPerHost => o.popped = n}

\* processQueue, lines 643-649, with the start of processBatch, lines
\* 545-609: fill a batch and launch one worker for each of its requests
startBatch ==
    /\ pqPc = "fill"
    /\ \E o \in fillBatch(queue) :
         /\ queue' = queue - o.popped
         /\ IF o.batch = 0
            THEN /\ pqPc' = "wait"
                 /\ UNCHANGED <<batch, worker, inflight, doneChan, reqsChan,
                                feeder, oldFeeders, batches>>
            ELSE /\ pqPc' = "send"
                 /\ batch' = o.batch
                 /\ worker' = [w \in Workers |->
                        IF w <= o.batch THEN "idle" ELSE "none"]
                 /\ inflight' = o.batch
                 /\ doneChan' = FALSE
                 /\ reqsChan' = FALSE
                 /\ feeder' = "none"
                 /\ oldFeeders' = oldFeeders + (IF feeder = "run" THEN 1 ELSE 0)
                 /\ batches' = batches + 1
    /\ UNCHANGED <<signalWorkChan, stopChan, enqueued>>
    /\ UNCHANGED notDownloaderVars

\* workerFn, lines 567-603, for worker w receiving a request from reqsChan:
\* it leaves the loop if the downloader is stopped, else it executes the
\* request; the last worker to leave closes doneChan
received(w) ==
    IF stopChan
    THEN /\ worker' = [worker EXCEPT ![w] = "exited"]
         /\ inflight' = inflight - 1
         /\ doneChan' = (inflight = 1)
    ELSE /\ worker' = [worker EXCEPT ![w] = "executing"]
         /\ UNCHANGED <<inflight, doneChan>>

\* processBatch, lines 610-626: hand a request of the batch to a worker; after
\* the last one, launch the goroutine that keeps the requests coming
sendBatch ==
    /\ pqPc = "send"
    /\ \E w \in Workers :
         /\ worker[w] = "idle"
         /\ received(w)
    /\ batch' = batch - 1
    /\ IF batch = 1
       THEN pqPc' = "waitForDone" /\ feeder' = "run"
       ELSE UNCHANGED <<pqPc, feeder>>
    /\ UNCHANGED <<queue, signalWorkChan, stopChan, reqsChan, oldFeeders,
                   enqueued, batches>>
    /\ UNCHANGED notDownloaderVars

\* workerFn, lines 581-596: execute returns
executed(w) ==
    /\ worker[w] = "executing"
    /\ worker' = [worker EXCEPT ![w] = "idle"]
    /\ UNCHANGED <<queue, signalWorkChan, stopChan, pqPc, batch, inflight,
                   doneChan, reqsChan, feeder, oldFeeders, enqueued, batches>>
    /\ UNCHANGED notDownloaderVars

\* workerFn, lines 567 and 599-603: reqsChan is closed, the worker leaves
workerReturns(w) ==
    /\ worker[w] = "idle"
    /\ reqsChan
    /\ worker' = [worker EXCEPT ![w] = "exited"]
    /\ inflight' = inflight - 1
    /\ doneChan' = (inflight = 1)
    /\ UNCHANGED <<queue, signalWorkChan, stopChan, pqPc, batch, reqsChan,
                   feeder, oldFeeders, enqueued, batches>>
    /\ UNCHANGED notDownloaderVars

\* lines 615-626: the goroutine pops a request, or closes reqsChan on an
\* empty queue
feederPop ==
    /\ feeder = "run"
    /\ IF queue = 0
       THEN /\ reqsChan' = TRUE
            /\ feeder' = "closed"
            /\ UNCHANGED queue
       ELSE /\ queue' = queue - 1
            /\ \E done \in BOOLEAN : feeder' = IF done THEN "run" ELSE "hold"
            /\ UNCHANGED reqsChan
    /\ UNCHANGED <<signalWorkChan, stopChan, pqPc, batch, worker, inflight,
                   doneChan, oldFeeders, enqueued, batches>>
    /\ UNCHANGED notDownloaderVars

\* line 623: the goroutine hands its request to a worker
feederSend ==
    /\ feeder = "hold"
    /\ \E w \in Workers :
         /\ worker[w] = "idle"
         /\ received(w)
    /\ feeder' = "run"
    /\ UNCHANGED <<queue, signalWorkChan, stopChan, pqPc, batch, reqsChan,
                   oldFeeders, enqueued, batches>>
    /\ UNCHANGED notDownloaderVars

\* lines 615-626, for the goroutine of an earlier batch, whose workers have
\* all left: it returns on an empty queue, else it pops a request, and with
\* one that is not done it blocks on reqsChan for good
oldFeederPop ==
    /\ oldFeeders > 0
    /\ IF queue = 0
       THEN /\ oldFeeders' = oldFeeders - 1
            /\ UNCHANGED queue
       ELSE /\ queue' = queue - 1
            /\ \E done \in BOOLEAN :
                 oldFeeders' = IF done THEN oldFeeders ELSE oldFeeders - 1
    /\ UNCHANGED <<signalWorkChan, stopChan, pqPc, batch, worker, inflight,
                   doneChan, reqsChan, feeder, enqueued, batches>>
    /\ UNCHANGED notDownloaderVars

\* processQueue, lines 650-656: wait for the batch, or return on stop
waitForDone ==
    /\ pqPc = "waitForDone"
    /\ \/ /\ stopChan
          /\ pqPc' = "returned"
       \/ /\ doneChan
          /\ pqPc' = "wait"
    /\ UNCHANGED <<queue, signalWorkChan, stopChan, batch, worker, inflight,
                   doneChan, reqsChan, feeder, oldFeeders, enqueued, batches>>
    /\ UNCHANGED notDownloaderVars

NextDownloader ==
    \/ enqueue
    \/ closeStopChan
    \/ waitForWork
    \/ startBatch
    \/ sendBatch
    \/ \E w \in Workers : executed(w)
    \/ \E w \in Workers : workerReturns(w)
    \/ feederPop
    \/ feederSend
    \/ oldFeederPop
    \/ waitForDone

---------------------------------------------------------------------------
(***************************************************************************)
(* worker/download.go: slabsForDownload on its own                         *)
(***************************************************************************)

\* slab sequences of up to MaxSlabs slices, slice k tagged by its shard on
\* host k, of 1..SlabLength bytes from offset 0 or 1 of its slab
SliceShapes == {0, 1} \X (1..SlabLength)

SlabSeqs ==
    UNION {[1..n -> SliceShapes] : n \in 0..MaxSlabs}

Slices(shape) ==
    [k \in DOMAIN shape |-> SlabSlice(1, <<k>>, shape[k][1], shape[k][2])]

RECURSIVE SumLengths(_)
SumLengths(slabs) ==
    IF slabs = <<>> THEN 0 ELSE slabs[1].Length + SumLengths(Tail(slabs))

\* the calls slabsForDownload(S, o, l) with [o, o + l) inside the object
InitSlabsForDownload ==
    \E shape \in SlabSeqs :
      \E o \in 0..SumLengths(Slices(shape)) :
        \E l \in 0..(SumLengths(Slices(shape)) - o) :
          sfd = [slabs |-> Slices(shape), offset |-> o, length |-> l,
                 called |-> FALSE, panic |-> "none", out |-> <<>>]

CallSlabsForDownload ==
    /\ ~sfd.called
    /\ LET r == slabsForDownload(sfd.slabs, sfd.offset, sfd.length) IN
       sfd' = [sfd EXCEPT !.called = TRUE, !.panic = r.panic, !.out = r.slabs]
    /\ UNCHANGED notSfdVars

NextSlabsForDownload == CallSlabsForDownload

---------------------------------------------------------------------------
(***************************************************************************)
(* worker/download.go: one slab download (slabDownload), with its overdrive *)
(* goroutine, from newSlabDownload to the return of downloadShards         *)
(***************************************************************************)

ShardIdx == 1..MaxShards

\* the zero types.PublicKey: the value of curr before the first
\* nextRequest, and what fastest returns when no host has a downloader
ZeroKey == 0

NoReq == [hk |-> ZeroKey, root |-> 0, sectorIndex |-> 0, overdrive |-> FALSE]

\* the shards of a slab, shard i stored on host hosts[i]
RECURSIVE sectorsOf(_, _, _)
sectorsOf(hosts, h, i) ==
    IF i > Len(hosts) THEN <<>>
    ELSE (IF hosts[i] = h THEN <<i>> ELSE <<>>) \o sectorsOf(hosts, h, i + 1)

\* newSlabDownload, lines 455-477, for a slab with its shards on hosts and
\* downloadShards about to start
newSlabDownload(hosts, minShards) ==
    [shards |-> hosts,
     minShards |-> minShards,
     hostToSectors |-> [h \in HostKeys \cup {ZeroKey} |->
                           IF h = ZeroKey THEN <<>> ELSE sectorsOf(hosts, h, 1)],
     used |-> {},
     curr |-> ZeroKey,
     numCompleted |-> 0,
     numInflight |-> 0,
     numLaunched |-> 0,
     numOverdriving |-> 0,
     errs |-> 0,
     sectors |-> [i \in ShardIdx |-> 0],
     \* downloadShards: its position, locals and result, and its ctx
     pc |-> "overdrive",
     i |-> 0,
     done |-> FALSE,
     next |-> FALSE,
     triggered |-> FALSE,
     tokens |-> 0,
     ret |-> "none",
     retErrs |-> 0,
     ctxDone |-> FALSE,
     \* the overdrive goroutine: its position and its request
     odPc |-> "none",
     odReq |-> NoReq,
     odNil |-> TRUE,
     \* reqs[i]: the request for shard i enqueued on a downloader, how often
     \* one was launched (n), and whether it waits for its response
     reqs |-> [i \in ShardIdx |-> [n |-> 0, req |-> NoReq, state |-> "none"]],
     \* how often nextRequest handed out shard i, how often sectors[i] was set
     handed |-> [i \in ShardIdx |-> 0],
     written |-> [i \in ShardIdx |-> 0]]

\* no slab download
NoSdl == [pc |-> "none"]

\* the assignments of the shards to hosts, up to the names of the hosts:
\* a shard is on a host of an earlier shard or on the next host
Assignments ==
    {hosts \in [ShardIdx -> HostKeys] :
        \A i \in ShardIdx :
            hosts[i] <= 1 + Cardinality({hosts[j] : j \in 1..(i - 1)})}

\* the slab downloads started: every assignment of MaxShards shards to
\* hosts, MinShards below the number of shards, overdrive on or off, and a
\* downloader for every host or for every host but the one of the first shard
InitSlabDownload ==
    /\ mgrConfig \in {Config(0, 0), Config(0, 1), Config(1, 1)}
    /\ mgrStopped = FALSE
    /\ mgrOngoing = {0}
    /\ \E miss \in {{}, {1}} :
          downloaders = [h \in HostKeys |-> IF h \in miss THEN 0 ELSE h]
    /\ dlStopped = {}
    /\ dlQueue = [h \in 1..NumHostKeys |-> <<>>]
    /\ mgrPanic = "none"
    /\ stopCalls = 0
    /\ refreshCalls = 0
    /\ launchCalls = 0
    /\ \E hosts \in Assignments, minShards \in 1..(MaxShards - 1) :
          sdl = newSlabDownload(hosts, minShards)

\* every host has a downloader
AllDownloaders == \A h \in HostKeys : downloaders[h] # 0

\* downloadManager.fastest(hosts), lines 1055-1072: the host with the lowest
\* estimate among those with a downloader (any of them, the estimates being
\* what they are), the zero key if there is none
fastest(hosts) ==
    IF \E h \in hosts : downloaders[h] # 0
    THEN {h \in hosts : downloaders[h] # 0}
    ELSE {ZeroKey}

\* nextRequest that hands out the first sector of the host and leaves it in
\* the list
popSectorKept(s, overdrive) ==
    LET sector == Head(s.hostToSectors[s.curr]) IN
    [s |-> [s EXCEPT !.handed[sector] = @ + 1,
                     !.hostToSectors[s.curr] =
                         IF s.handed[sector] >= 1 THEN Tail(@) ELSE @],
     nil |-> FALSE,
     req |-> [hk |-> s.shards[sector], root |-> sector, sectorIndex |-> sector,
              overdrive |-> overdrive]]

\* nextRequest, lines 877-899: pop the next sector of the current host
popSector(s, overdrive) ==
    LET sector == Head(s.hostToSectors[s.curr]) IN
    [s |-> [s EXCEPT !.hostToSectors[s.curr] = Tail(@),
                     !.handed[sector] = @ + 1],
     nil |-> FALSE,
     req |-> [hk |-> s.shards[sector], root |-> sector, sectorIndex |-> sector,
              overdrive |-> overdrive]]

\* slabDownload.nextRequest, lines 853-900, under s.mu: the possible
\* outcomes, one for each host fastest may return
nextRequest(s, overdrive) ==
    IF Len(s.hostToSectors[s.curr]) = 0
    THEN {LET s1 == [s EXCEPT !.curr = f, !.used = @ \cup {f}] IN
          IF Len(s1.hostToSectors[f]) = 0
          THEN [s |-> s1, nil |-> TRUE, req |-> NoReq]
          ELSE popSector(s1, overdrive)
            : f \in fastest({h \in HostKeys : /\ s.hostToSectors[h] # <<>>
                                              /\ h \notin s.used})}
    ELSE {popSector(s, overdrive)}

\* slabDownload.launch, lines 1005-1030, under s.mu, with
\* downloadManager.launch, lines 1074-1085
launchRequest(s, nil, req) ==
    IF nil THEN [s |-> s, err |-> "no request given"]
    ELSE IF downloaders[req.hk] = 0 THEN [s |-> s, err |-> "no downloader"]
    ELSE [s |-> [s EXCEPT !.numInflight = (@ + 1) % (MaxUint32 + 1),
                          !.numLaunched = (@ + 1) % (MaxUint32 + 1),
                          !.numOverdriving =
                              IF req.overdrive THEN (@ + 1) % (MaxUint32 + 1)
                              ELSE @,
                          !.reqs[req.sectorIndex] =
                              [n |-> @.n + 1, req |-> req, state |-> "queued"]],
          err |-> Nil]

\* receive that leaves numInflight alone when the response is an error
receiveResponseErrorInflight(s, req, ok) ==
    LET dec(n) == (n + MaxUint32) % (MaxUint32 + 1)
        s1 == [s EXCEPT !.numOverdriving = IF req.overdrive THEN dec(@) ELSE @]
    IN  IF ~ok
        THEN [s1 EXCEPT !.errs = @ + 1, !.done = FALSE, !.next = FALSE]
        ELSE [s1 EXCEPT !.numInflight = dec(@),
                        !.sectors[req.sectorIndex] = req.root,
                        !.written[req.sectorIndex] = @ + 1,
                        !.numCompleted = @ + 1,
                        !.done = s.numCompleted + 1 >= s.minShards,
                        !.next = s.numCompleted + 1 + mgrConfig.maxOverdrive
                                     >= s.minShards]

\* slabDownload.receive, lines 1032-1053, under s.mu, of the response to
\* request req: ok with the sector of req.root, or an error
receiveResponse(s, req, ok) ==
    LET dec(n) == (n + MaxUint32) % (MaxUint32 + 1)
        s1 == [s EXCEPT !.numOverdriving = IF req.overdrive THEN dec(@) ELSE @,
                        !.numInflight = dec(@)]
    IN  IF ~ok
        THEN [s1 EXCEPT !.errs = @ + 1, !.done = FALSE, !.next = FALSE]
        ELSE [s1 EXCEPT !.sectors[req.sectorIndex] = req.root,
                        !.written[req.sectorIndex] = @ + 1,
                        !.numCompleted = @ + 1,
                        !.done = s.numCompleted + 1 >= s.minShards,
                        !.next = s.numCompleted + 1 + mgrConfig.maxOverdrive
                                     >= s.minShards]

\* canOverdrive, lines 816-833, once the overdrive is due
canOverdrive(s) ==
    LET remaining == s.minShards - s.numCompleted IN
    ~(s.numInflight >=
         (mgrConfig.maxOverdrive + (remaining % (MaxUint32 + 1))) % (MaxUint32 + 1))

\* finish that returns the sectors whatever numCompleted is
finishUnchecked(s) == "ok"

\* slabDownload.finish, lines 990-997
finish(s) ==
    IF s.numCompleted < s.minShards THEN "failed to download slab" ELSE "ok"

\* slabDownload.finish, line 994: the host errors the returned error wraps
\* (errors=%w of s.errs), none with the sectors
finishErrs(s) == IF s.numCompleted < s.minShards THEN s.errs ELSE 0

sdlOnly == <<ptVars, mgrVars, doVars, downloaderVars, sfd, tfd, want, fq, spd,
            mig, hs>>
sdlAndChan == <<doPc, doArgs, doSlabs, doCtxDone, respChanClosed, prodPc,
                slabIndex, respIndex, responses, sink, doRet, slabDl, ptVars,
                mgrVars, downloaderVars, sfd, tfd, want, fq, spd, mig, hs>>

\* the select of lines 947-951 and 957-960: the token goes into
\* nextSlabTrigger if the send is tried and the buffer is empty
sent(tried) == IF tried /\ nextSlabChan = 0 THEN 1 ELSE 0

\* downloadShards, lines 904-915: create the ctx and launch overdrive, whose
\* goroutine is only started with an overdriveTimeout
launchOverdrive ==
    /\ sdl.pc = "overdrive"
    /\ sdl' = [sdl EXCEPT !.pc = "primary",
                          !.odPc = IF mgrConfig.overdriveTimeout = 0
                                   THEN "none" ELSE "select"]
    /\ UNCHANGED sdlOnly

\* downloadShards, lines 918-923: the next of the MinShards requests,
\* nextRequest and launch, or the return of "no hosts available"
primaryRequest ==
    /\ sdl.pc = "primary"
    /\ \E n \in nextRequest(sdl, FALSE) :
          LET l == launchRequest(n.s, n.nil, n.req) IN
          sdl' = IF l.err # Nil
                 THEN [l.s EXCEPT !.pc = "cancel", !.ret = "no hosts available"]
                 ELSE [l.s EXCEPT !.pc = IF sdl.i + 1 < sdl.minShards
                                         THEN "primary" ELSE "loop",
                                  !.i = @ + 1]
    /\ UNCHANGED sdlOnly

\* downloadShards, line 929 and lines 955-966: the loop goes on while
\* requests are in flight and the slab is not done; after it the next slab
\* is triggered if it was not, and finish decides the result
loopCondition ==
    /\ sdl.pc = "loop"
    /\ IF sdl.numInflight > 0 /\ ~sdl.done
       THEN /\ sdl' = [sdl EXCEPT !.pc = "select"]
            /\ UNCHANGED nextSlabChan
       ELSE /\ sdl' = [sdl EXCEPT !.pc = "cancel", !.ret = finish(sdl),
                                   !.retErrs = finishErrs(sdl),
                                   !.tokens = @ + sent(sdl.done /\ ~sdl.triggered)]
            /\ nextSlabChan' = IF sdl.done /\ ~sdl.triggered
                               THEN 1 ELSE nextSlabChan
    /\ UNCHANGED sdlAndChan

\* the trigger that forgets that the next slab was triggered
triggerAgain(s) ==
    s.next /\ Cardinality(mgrOngoing) < maxConcurrentSlabsPerDownload

\* downloadShards, lines 946-952: trigger the next slab, in the loop
trigger(s) ==
    s.next /\ ~s.triggered
           /\ Cardinality(mgrOngoing) < maxConcurrentSlabsPerDownload

\* downloadShards, lines 932-935: Stop closed the stopChan of the manager
\* (nothing else of the slab download reads it), or ctx is done
selectAbort ==
    /\ sdl.pc = "select"
    /\ \/ /\ mgrStopped' = TRUE
          /\ sdl' = [sdl EXCEPT !.pc = "cancel", !.ret = "download stopped"]
       \/ /\ sdl.ctxDone
          /\ sdl' = [sdl EXCEPT !.pc = "cancel", !.ret = "context canceled"]
          /\ UNCHANGED mgrStopped
    /\ UNCHANGED <<mgrConfig, mgrOngoing, downloaders, dlStopped, dlQueue,
                   mgrPanic, stopCalls, refreshCalls, launchCalls>>
    /\ UNCHANGED <<ptVars, doVars, downloaderVars, sfd, tfd, want, fq, spd, mig,
                   hs>>

\* downloadShards, lines 936-952: the downloader of request k answers (succeed
\* or fail, lines 759-780) and the loop receives the response; with no
\* replacement to launch, the iteration ends with the trigger
selectResponse(k, ok) ==
    /\ sdl.pc = "select"
    /\ sdl.reqs[k].state = "queued"
    /\ LET r == receiveResponse(sdl, sdl.reqs[k].req, ok)
           s == [r EXCEPT !.reqs[k].state = "answered"]
       IN  IF ~s.done /\ ~ok
           THEN /\ sdl' = [s EXCEPT !.pc = "replace"]
                /\ UNCHANGED nextSlabChan
           ELSE /\ sdl' = [s EXCEPT !.pc = "loop",
                                    !.triggered = @ \/ (trigger(s) /\ nextSlabChan = 0),
                                    !.tokens = @ + sent(trigger(s))]
                /\ nextSlabChan' = IF trigger(s) THEN 1 ELSE nextSlabChan
    /\ UNCHANGED sdlAndChan

\* downloadShards, lines 943-952: the request that replaces a failed one,
\* nextRequest and launch, errors ignored, then the trigger
replaceRequest ==
    /\ sdl.pc = "replace"
    /\ \E n \in nextRequest(sdl, TRUE) :
          LET s == launchRequest(n.s, n.nil, n.req).s IN
          /\ sdl' = [s EXCEPT !.pc = "loop",
                              !.triggered = @ \/ (trigger(s) /\ nextSlabChan = 0),
                              !.tokens = @ + sent(trigger(s))]
          /\ nextSlabChan' = IF trigger(s) THEN 1 ELSE nextSlabChan
    /\ UNCHANGED sdlAndChan

\* downloadShards, line 905: the deferred cancel, as downloadShards returns
deferredCancel ==
    /\ sdl.pc = "cancel"
    /\ sdl' = [sdl EXCEPT !.pc = "returned", !.ctxDone = TRUE]
    /\ UNCHANGED sdlOnly

\* the ctx of the download is cancelled while downloadShards waits for a
\* response: the overdrive goroutine and the select of the loop read it
parentCancel ==
    /\ sdl.pc = "select"
    /\ ~sdl.ctxDone
    /\ sdl' = [sdl EXCEPT !.ctxDone = TRUE]
    /\ UNCHANGED sdlOnly

\* the overdrive goroutine, lines 837-840: ctx is done
overdriveExit ==
    /\ sdl.odPc = "select"
    /\ sdl.ctxDone
    /\ sdl' = [sdl EXCEPT !.odPc = "exited"]
    /\ UNCHANGED sdlOnly

\* the overdrive goroutine, lines 841-842: the timer fired and the overdrive
\* is due; if canOverdrive refuses, the timer is reset and nothing changed
overdriveTimer ==
    /\ sdl.odPc = "select"
    /\ canOverdrive(sdl)
    /\ sdl' = [sdl EXCEPT !.odPc = "request"]
    /\ UNCHANGED sdlOnly

\* the overdrive goroutine, line 843: nextRequest
overdriveRequest ==
    /\ sdl.odPc = "request"
    /\ \E n \in nextRequest(sdl, TRUE) :
          sdl' = [n.s EXCEPT !.odPc = "launch", !.odReq = n.req, !.odNil = n.nil]
    /\ UNCHANGED sdlOnly

\* the overdrive goroutine, lines 843-845: launch, errors ignored
overdriveLaunch ==
    /\ sdl.odPc = "launch"
    /\ sdl' = [launchRequest(sdl, sdl.odNil, sdl.odReq).s EXCEPT
                   !.odPc = "select", !.odReq = NoReq, !.odNil = TRUE]
    /\ UNCHANGED sdlOnly

\* DownloadObject, lines 243-248: the goroutine launching the slab downloads
\* receives the token, while the loop of the slab download runs
takeToken ==
    /\ sdl.pc \in {"loop", "select", "replace"}
    /\ nextSlabChan = 1
    /\ nextSlabChan' = 0
    /\ UNCHANGED sdl
    /\ UNCHANGED sdlAndChan

\* downloadShards of another slab download of the object, lines 946-961: its
\* token goes into the empty buffer, while the loop of this one runs
otherTrigger ==
    /\ sdl.pc \in {"loop", "select", "replace"}
    /\ nextSlabChan = 0
    /\ nextSlabChan' = 1
    /\ UNCHANGED sdl
    /\ UNCHANGED sdlAndChan

NextSlabTokens ==
    \/ launchOverdrive
    \/ primaryRequest
    \/ loopCondition
    \/ selectAbort
    \/ \E k \in ShardIdx, ok \in BOOLEAN : selectResponse(k, ok)
    \/ replaceRequest
    \/ deferredCancel
    \/ parentCancel
    \/ overdriveExit
    \/ overdriveTimer
    \/ overdriveRequest
    \/ overdriveLaunch
    \/ takeToken
    \/ otherTrigger

\* another download calls refreshDownloaders with its contracts (lines 201
\* and 403-433) while the slab download runs
OtherContracts == {HostKeys, HostKeys \ {1}}

NextSlabRefresh ==
    \/ launchOverdrive
    \/ primaryRequest
    \/ loopCondition
    \/ selectAbort
    \/ \E k \in ShardIdx, ok \in BOOLEAN : selectResponse(k, ok)
    \/ replaceRequest
    \/ deferredCancel
    \/ parentCancel
    \/ overdriveExit
    \/ overdriveTimer
    \/ overdriveRequest
    \/ overdriveLaunch
    \/ \E contracts \in OtherContracts : RefreshDownloaders(contracts)

NextSlabDownload ==
    \/ launchOverdrive
    \/ primaryRequest
    \/ loopCondition
    \/ selectAbort
    \/ \E k \in ShardIdx, ok \in BOOLEAN : selectResponse(k, ok)
    \/ replaceRequest
    \/ deferredCancel
    \/ parentCancel
    \/ overdriveExit
    \/ overdriveTimer
    \/ overdriveRequest
    \/ overdriveLaunch

---------------------------------------------------------------------------
(***************************************************************************)
(* worker/download.go: DownloadObject of objects with a slab that has too  *)
(* few of its shards on hosts with a contract                              *)
(***************************************************************************)

\* the contracts of the call: hosts 1 and 2
SomeContracts == {1, 2}

\* an object of n slabs: slab i (from 0) needs both its shards and has one
\* of them on host 3, the other slabs need one of their two shards
LackingObject(n, i) ==
    [k \in 1..n |-> IF k = i + 1 THEN SlabSlice(2, <<1, 3>>, 0, SlabLength)
                    ELSE SlabSlice(1, <<1, 2>>, 0, SlabLength)]

NextLackingHosts ==
    \/ \E n \in 1..(MaxSlabs - 1), i \in SlabIdx :
         /\ i < n
         /\ DownloadObject(LackingObject(n, i), 0, n * SlabLength, SomeContracts)
    \/ CallerCancel
    \/ ~mgrStopped /\ Stop
    \/ launchNextSlab
    \/ \E i \in SlabIdx : downloadSlab(i)
    \/ \E i \in SlabIdx, ok \in BOOLEAN : collectResponse(i, ok)
    \/ \E i \in SlabIdx : loopAbort(i)
    \/ \E i \in SlabIdx : respondCtxDone(i)
    \/ \E i \in SlabIdx : collectSlab(i)
    \/ \E i \in SlabIdx : respondSent(i)
    \/ collectOther
    \/ returnDeferred
    \/ sendOnClosed

---------------------------------------------------------------------------
(***************************************************************************)
(* worker/download.go: the failure tracking of a downloader                *)
(***************************************************************************)

\* time.Hour.Milliseconds(), line 728
hourInMS == 3600000

\* what execute returned: nil, an error one of isBalanceInsufficient,
\* isPriceTableExpired, isPriceTableNotFound and isSectorNotFound holds of,
\* or another error
\* the error of a host call whose ctx was cancelled (execute, line 745)
ContextCanceled == "context canceled"

Errs == {Nil, "balance insufficient", "price table expired",
         "price table not found", "sector not found", ContextCanceled,
         "other"}

isBalanceInsufficient(err) == err = "balance insufficient"
isPriceTableExpired(err) == err = "price table expired"
isPriceTableNotFound(err) == err = "price table not found"
isSectorNotFound(err) == err = "sector not found"

\* newDownloader, lines 165-177: no failures, an estimator without samples
InitTrackFailure ==
    tfd = [consecutiveFailures |-> 0, statsSectorDownloadEstimateInMS |-> <<>>,
           calls |-> 0, err |-> Nil]

\* no downloader
NoTfd == [calls |-> MaxTracks]

\* trackFailure that also blames the host for the errors it cannot help
trackFailureBlameAll(d, err) ==
    IF err = Nil THEN [d EXCEPT !.consecutiveFailures = 0]
    ELSE [d EXCEPT !.consecutiveFailures = @ + 1,
                   !.statsSectorDownloadEstimateInMS = Append(@, hourInMS)]

\* downloader.trackFailure, lines 711-729
trackFailure(d, err) ==
    IF err = Nil THEN [d EXCEPT !.consecutiveFailures = 0]
    ELSE IF \/ isBalanceInsufficient(err)
            \/ isPriceTableExpired(err)
            \/ isPriceTableNotFound(err)
            \/ isSectorNotFound(err)
    THEN d
    ELSE [d EXCEPT !.consecutiveFailures = @ + 1,
                   !.statsSectorDownloadEstimateInMS = Append(@, hourInMS)]

\* downloader.stats, lines 512-520: healthy
stats(d) == [healthy |-> d.consecutiveFailures = 0]

\* a worker of processBatch, lines 581-582: execute returned err
TrackFailure(err) ==
    /\ tfd.calls < MaxTracks
    /\ tfd' = [trackFailure(tfd, err) EXCEPT !.calls = @ + 1, !.err = err]
    /\ UNCHANGED <<ptVars, mgrVars, doVars, downloaderVars, sfd, sdl, want, fq, spd,
                   mig, hs>>

NextTrackFailure == \E err \in Errs : TrackFailure(err)

---------------------------------------------------------------------------
(***************************************************************************)
(* Specifications: one per subsystem, the others idle                      *)
(***************************************************************************)

\* the state after construction: the price-table cache, the download manager
\* (overdrive disabled), no download running, one downloader
NoSfd == [slabs |-> <<>>, offset |-> 0, length |-> 0, called |-> TRUE,
          panic |-> "none", out |-> <<>>]

(***************************************************************************)
(* worker/download.go: the queue of one downloader request by request:     *)
(* enqueue, pop, fillBatch, processBatch and processQueue, the requests     *)
(* numbered in the order of their enqueue                                  *)
(***************************************************************************)

BatchWorkers == 1..maxConcurrentSectorsPerHost

\* newDownloader, lines 165-177, with processQueue launched (line 431)
InitQueue ==
    fq = [queue |-> <<>>,         \* d.queue
          n |-> 0,                \* requests enqueued so far
          cancelled |-> {},       \* requests whose ctx is done
          signal |-> 0,           \* tokens in d.signalWorkChan
          stopped |-> FALSE,      \* d.stopChan is closed
          pc |-> "wait",          \* position of processQueue
          batch |-> <<>>,         \* the batch filled, then still to hand out
          worker |-> [w \in BatchWorkers |-> "none"],
          inflight |-> 0,
          doneChan |-> FALSE,     \* doneChan of the batch is closed
          reqsChan |-> FALSE,     \* reqsChan of the batch is closed
          feeder |-> "none",      \* the goroutine of lines 615-626
          held |-> 0,             \* the request it has popped and not sent
          oldFeeders |-> 0,       \* such goroutines of earlier batches
          popped |-> <<>>,        \* the requests pop returned, in order
          started |-> {}]         \* the requests execute was called for

notFqVars == <<ptVars, mgrVars, doVars, downloaderVars, sfd, sdl, tfd, want,
               spd, mig, hs>>

\* pop that takes the request enqueued last
popLast(q) ==
    IF Len(q) > 0
    THEN [req |-> q[Len(q)], queue |-> SubSeq(q, 1, Len(q) - 1)]
    ELSE [req |-> 0, queue |-> q]

\* downloader.pop, lines 698-709, under d.mu: the request (0 for nil) and
\* the queue left
pop(q) ==
    IF Len(q) > 0
    THEN [req |-> Head(q), queue |-> Tail(q)]
    ELSE [req |-> 0, queue |-> q]

\* fq after a pop that returned a request
popOf(p) ==
    [fq EXCEPT !.queue = p.queue, !.popped = Append(@, p.req)]

\* enqueue that does not signal that there is work
EnqueueUnsignalled ==
    /\ fq.n < MaxReqs
    /\ fq' = [fq EXCEPT !.queue = Append(@, fq.n + 1), !.n = @ + 1]
    /\ UNCHANGED notFqVars

\* downloader.enqueue, lines 680-696
Enqueue ==
    /\ fq.n < MaxReqs
    /\ fq' = [fq EXCEPT !.queue = Append(@, fq.n + 1), !.n = @ + 1,
                        !.signal = 1]
    /\ UNCHANGED notFqVars

\* the ctx of a queued request is done (sectorDownloadReq.done, lines 782-789)
CancelRequest(r) ==
    /\ \E k \in 1..Len(fq.queue) : fq.queue[k] = r
    /\ r \notin fq.cancelled
    /\ fq' = [fq EXCEPT !.cancelled = @ \cup {r}]
    /\ UNCHANGED notFqVars

\* close(d.stopChan), by Stop (line 379) or refreshDownloaders (line 417)
StopDownloader ==
    /\ ~fq.stopped
    /\ fq' = [fq EXCEPT !.stopped = TRUE]
    /\ UNCHANGED notFqVars

\* processQueue, lines 635-639: wait for work
WaitForWork ==
    /\ fq.pc = "wait"
    /\ \/ /\ fq.signal > 0
          /\ fq' = [fq EXCEPT !.signal = 0, !.pc = "fill", !.batch = <<>>]
       \/ /\ fq.stopped
          /\ fq' = [fq EXCEPT !.pc = "returned"]
    /\ UNCHANGED notFqVars

\* processBatch, lines 545-609: one worker for each request of the batch;
\* the goroutine of the batch before, if it still runs, runs on
processBatch(f) ==
    [f EXCEPT !.pc = "send",
              !.worker = [w \in BatchWorkers |->
                             IF w <= Len(f.batch) THEN "idle" ELSE "none"],
              !.inflight = Len(f.batch),
              !.doneChan = FALSE,
              !.reqsChan = FALSE,
              !.feeder = "none",
              !.held = 0,
              !.oldFeeders = @ + (IF f.feeder = "run" THEN 1 ELSE 0)]

\* fillBatch, lines 531-542, one iteration: pop a request, skip it if it is
\* done; processQueue, lines 643-649, once the batch is filled
FillBatch ==
    /\ fq.pc = "fill"
    /\ LET p == pop(fq.queue) IN
       fq' = IF Len(fq.batch) < maxConcurrentSectorsPerHost /\ p.req # 0
             THEN IF p.req \in fq.cancelled
                  THEN popOf(p)
                  ELSE [popOf(p) EXCEPT !.batch = Append(@, p.req)]
             ELSE IF Len(fq.batch) = 0
                  THEN [fq EXCEPT !.pc = "wait"]
                  ELSE processBatch(fq)
    /\ UNCHANGED notFqVars

\* workerFn, lines 567-582, for worker w receiving request r from reqsChan:
\* it leaves if the downloader is stopped, else it calls execute
Receive(f, w, r) ==
    IF f.stopped
    THEN [f EXCEPT !.worker[w] = "exited",
                   !.inflight = @ - 1,
                   !.doneChan = (f.inflight = 1)]
    ELSE [f EXCEPT !.worker[w] = "executing",
                   !.started = @ \cup {r}]

\* processBatch, lines 610-626: hand the next request of the batch to a
\* worker; after the last one, launch the goroutine that keeps them coming
SendBatch ==
    /\ fq.pc = "send"
    /\ \E w \in BatchWorkers :
         /\ fq.worker[w] = "idle"
         /\ LET f == Receive(fq, w, Head(fq.batch)) IN
            fq' = IF Len(fq.batch) = 1
                  THEN [f EXCEPT !.batch = <<>>, !.pc = "waitForDone",
                                 !.feeder = "run"]
                  ELSE [f EXCEPT !.batch = Tail(@)]
    /\ UNCHANGED notFqVars

\* workerFn, lines 581-596: execute returns
Executed(w) ==
    /\ fq.worker[w] = "executing"
    /\ fq' = [fq EXCEPT !.worker[w] = "idle"]
    /\ UNCHANGED notFqVars

\* workerFn, lines 567 and 599-603: reqsChan is closed, the worker leaves
WorkerReturns(w) ==
    /\ fq.worker[w] = "idle"
    /\ fq.reqsChan
    /\ fq' = [fq EXCEPT !.worker[w] = "exited",
                        !.inflight = @ - 1,
                        !.doneChan = (fq.inflight = 1)]
    /\ UNCHANGED notFqVars

\* lines 615-626: the goroutine pops a request and skips it if it is done,
\* or closes reqsChan on an empty queue
FeederPop ==
    /\ fq.feeder = "run"
    /\ LET p == pop(fq.queue) IN
       fq' = IF p.req = 0
             THEN [fq EXCEPT !.reqsChan = TRUE, !.feeder = "closed"]
             ELSE IF p.req \in fq.cancelled
             THEN popOf(p)
             ELSE [popOf(p) EXCEPT !.feeder = "hold", !.held = p.req]
    /\ UNCHANGED notFqVars

\* line 623: the goroutine hands its request to a worker
FeederSend ==
    /\ fq.feeder = "hold"
    /\ \E w \in BatchWorkers :
         /\ fq.worker[w] = "idle"
         /\ fq' = [Receive(fq, w, fq.held) EXCEPT !.feeder = "run", !.held = 0]
    /\ UNCHANGED notFqVars

\* lines 615-626, for the goroutine of an earlier batch, whose workers have
\* all left: it returns on an empty queue, else it pops a request, and with
\* one that is not done it blocks on reqsChan for good
OldFeederPop ==
    /\ fq.oldFeeders > 0
    /\ LET p == pop(fq.queue) IN
       fq' = IF p.req = 0
             THEN [fq EXCEPT !.oldFeeders = @ - 1]
             ELSE IF p.req \in fq.cancelled
             THEN popOf(p)
             ELSE [popOf(p) EXCEPT !.oldFeeders = @ - 1]
    /\ UNCHANGED notFqVars

\* processQueue, lines 650-656: wait for the batch, or return on stop
WaitForDone ==
    /\ fq.pc = "waitForDone"
    /\ \/ /\ fq.stopped
          /\ fq' = [fq EXCEPT !.pc = "returned"]
       \/ /\ fq.doneChan
          /\ fq' = [fq EXCEPT !.pc = "wait"]
    /\ UNCHANGED notFqVars

NextQueue ==
    \/ Enqueue
    \/ \E r \in 1..MaxReqs : CancelRequest(r)
    \/ StopDownloader
    \/ WaitForWork
    \/ FillBatch
    \/ SendBatch
    \/ \E w \in BatchWorkers : Executed(w)
    \/ \E w \in BatchWorkers : WorkerReturns(w)
    \/ FeederPop
    \/ FeederSend
    \/ OldFeederPop
    \/ WaitForDone

---------------------------------------------------------------------------
(***************************************************************************)
(* worker/download.go: downloadSpeed of a slab download, on its own        *)
(***************************************************************************)

\* rhpv2.SectorSize, 4 MiB
SectorSize == 4194304

\* the ages of the slab download when downloadSpeed is called, in
\* nanoseconds: multiples of a quarter of a millisecond
QuarterMS == 250000
MaxTicks == 16

\* time.Duration.Milliseconds
Milliseconds(d) == d \div 1000000

PanicDivide == "panic: runtime error: integer divide by zero"

\* the slab downloads of 1..MaxShards shards, of every age
InitDownloadSpeed ==
    \E n \in 1..MaxShards, k \in 0..MaxTicks :
        spd = [sectors |-> n, elapsed |-> k * QuarterMS, called |-> FALSE,
               panic |-> "none", out |-> 0]

NoSpd == [called |-> TRUE]

\* slabDownload.downloadSpeed, lines 981-988, elapsed after s.created
downloadSpeed(sectors, elapsed) ==
    LET completedShards == sectors
        bytes == completedShards * SectorSize
        ms == Milliseconds(elapsed)
    IN  IF ms = 0 THEN [panic |-> PanicDivide, out |-> 0]
        ELSE [panic |-> "none", out |-> bytes \div ms]

\* downloadShards, line 965: the speed is tracked
CallDownloadSpeed ==
    /\ ~spd.called
    /\ LET r == downloadSpeed(spd.sectors, spd.elapsed) IN
       spd' = [spd EXCEPT !.called = TRUE, !.panic = r.panic, !.out = r.out]
    /\ UNCHANGED <<ptVars, mgrVars, doVars, downloaderVars, sfd, sdl, tfd,
                   want, fq, mig, hs>>

NextDownloadSpeed == CallDownloadSpeed

NoFq == [pc |-> "none"]

---------------------------------------------------------------------------
(***************************************************************************)
(* autopilot/migrator.go: tryPerformMigrations and Status                  *)
(***************************************************************************)

\* the clock stops advancing here
MaxClock == 4

notMigVars == <<ptVars, mgrVars, doVars, downloaderVars, sfd, sdl, tfd, want,
                fq, spd, hs>>

\* newMigrator, lines 31-38: not migrating, migratingLastStart the zero time
InitMigrator ==
    mig = [migrating |-> FALSE,
           migratingLastStart |-> 0,
           stopped |-> FALSE,      \* what m.ap.isStopped() returns
           now |-> 1,              \* time.Now()
           starting |-> 0,         \* calls between line 61 and line 66
           running |-> 0,          \* goroutines inside performMigrations
           ending |-> 0,           \* goroutines between line 68 and line 70
           last |-> "none",        \* what the last call did
           status |-> <<FALSE, 0>>]

\* no migrator
NoMig == [last |-> "absent"]

\* time.Now() advancing
ClockTick ==
    /\ mig.now < MaxClock
    /\ mig' = [mig EXCEPT !.now = @ + 1]
    /\ UNCHANGED notMigVars

\* the autopilot is stopped
StopAutopilot ==
    /\ ~mig.stopped
    /\ mig' = [mig EXCEPT !.stopped = TRUE]
    /\ UNCHANGED notMigVars

\* tryPerformMigrations that does not look at m.migrating
TryPerformMigrationsUnchecked ==
    /\ mig' = IF mig.stopped
              THEN [mig EXCEPT !.last = "refused"]
              ELSE [mig EXCEPT !.migrating = TRUE,
                               !.migratingLastStart = mig.now,
                               !.starting = @ + 1,
                               !.last = "started"]
    /\ UNCHANGED notMigVars

\* tryPerformMigrations, lines 53-61, under m.mu
TryPerformMigrations ==
    /\ mig' = IF mig.migrating \/ mig.stopped
              THEN [mig EXCEPT !.last = "refused"]
              ELSE [mig EXCEPT !.migrating = TRUE,
                               !.migratingLastStart = mig.now,
                               !.starting = @ + 1,
                               !.last = "started"]
    /\ UNCHANGED notMigVars

\* tryPerformMigrations, lines 63-68: the goroutine is launched and calls
\* performMigrations
LaunchMigrations ==
    /\ mig.starting > 0
    /\ mig' = [mig EXCEPT !.starting = @ - 1, !.running = @ + 1]
    /\ UNCHANGED notMigVars

\* line 68: performMigrations returns
PerformMigrationsReturns ==
    /\ mig.running > 0
    /\ mig' = [mig EXCEPT !.running = @ - 1, !.ending = @ + 1]
    /\ UNCHANGED notMigVars

\* lines 69-71, under m.mu: the goroutine resets m.migrating
ResetMigrating ==
    /\ mig.ending > 0
    /\ mig' = [mig EXCEPT !.ending = @ - 1, !.migrating = FALSE]
    /\ UNCHANGED notMigVars

\* Status, lines 47-51, under m.mu
MigratorStatus ==
    /\ mig' = [mig EXCEPT !.status = <<mig.migrating, mig.migratingLastStart>>]
    /\ UNCHANGED notMigVars

NextMigrator ==
    \/ ClockTick
    \/ StopAutopilot
    \/ TryPerformMigrations
    \/ LaunchMigrations
    \/ PerformMigrationsReturns
    \/ ResetMigrating
    \/ MigratorStatus

---------------------------------------------------------------------------
(***************************************************************************)
(* stores: EphemeralContractStore and JSONContractStore, the host sets     *)
(***************************************************************************)

\* the names of the host sets and the host lists they are set to
SetNames == {"a", "b"}
HostLists == {<<>>, <<1>>, <<1, 2>>}

\* no entry for a name
Absent == <<0>>

\* a map[string][]PublicKey: nil, or the entry of each name
HostSetMaps ==
    [nil : {TRUE}, m : {[n \in SetNames |-> Absent]}]
        \cup [nil : {FALSE}, m : [SetNames -> HostLists \cup {Absent}]]

NilMap == [nil |-> TRUE, m |-> [n \in SetNames |-> Absent]]

\* contracts.json: missing, or the HostSets it holds
NoFile == [exists |-> FALSE, hostSets |-> NilMap]

PanicNilMap == "panic: assignment to entry in nil map"

notHsVars == <<ptVars, mgrVars, doVars, downloaderVars, sfd, sdl, tfd, want,
               fq, spd, mig>>

\* NewEphemeralContractStore, lines 93-97: hostSets is not made.
\* NewJSONContractStore, lines 174-183, with load, lines 139-153: without a
\* file the store stays as made, else hostSets is what the file holds
InitContractStore ==
    \E kind \in {"ephemeral", "json"} :
      \E file \in {NoFile} \cup [exists : {TRUE}, hostSets : HostSetMaps] :
        /\ kind = "ephemeral" => file = NoFile
        /\ hs = [kind |-> kind,
                 fresh |-> ~file.exists,
                 hostSets |-> IF file.exists THEN file.hostSets ELSE NilMap,
                 file |-> file,
                 panic |-> "none",
                 op |-> "none", name |-> "", hosts |-> <<>>,
                 err |-> Nil, out |-> <<>>, sets |-> {}]

\* no store
NoHs == [panic |-> "absent"]

\* delete(s.hostSets, name), a no-op on a nil map
deleteSet(hostSets, name) ==
    IF hostSets.nil THEN hostSets
    ELSE [hostSets EXCEPT !.m[name] = Absent]

\* s.hostSets[name] = append([]PublicKey(nil), hosts...)
assignSet(hostSets, name, hosts) ==
    [hostSets EXCEPT !.m[name] = hosts]

\* EphemeralContractStore.HostSet, lines 74-78: nil for a name without entry
HostSet(store, name) ==
    IF store.hostSets.nil \/ store.hostSets.m[name] = Absent THEN <<>>
    ELSE store.hostSets.m[name]

\* EphemeralContractStore.HostSets, lines 63-71: the names, in any order
HostSets(store) ==
    IF store.hostSets.nil THEN {}
    ELSE {n \in SetNames : store.hostSets.m[n] # Absent}

\* SetHostSet, lines 81-90, and for a JSONContractStore lines 168-171 with
\* save, lines 110-137, which writes the file or fails
SetHostSet(name, hosts) ==
    /\ hs.panic = "none"
    /\ LET called == [hs EXCEPT !.op = "SetHostSet", !.name = name,
                                !.hosts = hosts, !.err = Nil] IN
       IF Len(hosts) # 0 /\ hs.hostSets.nil
       THEN hs' = [called EXCEPT !.panic = PanicNilMap]
       ELSE LET set == IF Len(hosts) = 0
                       THEN deleteSet(hs.hostSets, name)
                       ELSE assignSet(hs.hostSets, name, hosts)
            IN  IF hs.kind = "json"
                THEN \E saved \in BOOLEAN :
                       hs' = IF saved
                             THEN [called EXCEPT
                                     !.hostSets = set,
                                     !.file = [exists |-> TRUE,
                                               hostSets |-> set]]
                             ELSE [called EXCEPT !.hostSets = set,
                                                 !.err = "save failed"]
                ELSE hs' = [called EXCEPT !.hostSets = set]
    /\ UNCHANGED notHsVars

\* a call of HostSet
CallHostSet(name) ==
    /\ hs.panic = "none"
    /\ hs' = [hs EXCEPT !.op = "HostSet", !.name = name, !.hosts = <<>>,
                        !.err = Nil, !.out = HostSet(hs, name)]
    /\ UNCHANGED notHsVars

\* a call of HostSets
CallHostSets ==
    /\ hs.panic = "none"
    /\ hs' = [hs EXCEPT !.op = "HostSets", !.name = "", !.hosts = <<>>,
                        !.err = Nil, !.sets = HostSets(hs)]
    /\ UNCHANGED notHsVars

NextContractStore ==
    \/ \E name \in SetNames, hosts \in HostLists : SetHostSet(name, hosts)
    \/ \E name \in SetNames : CallHostSet(name)
    \/ CallHostSets

---------------------------------------------------------------------------
Init ==
    /\ InitPriceTables
    /\ InitManager({Config(0, 0)})
    /\ InitDownloadObject
    /\ InitDownloader
    /\ sfd = NoSfd
    /\ sdl = NoSdl
    /\ tfd = NoTfd
    /\ want = {}
    /\ fq = NoFq
    /\ spd = NoSpd
    /\ mig = NoMig
    /\ hs = NoHs

\* the calls of slabsForDownload, everything else at rest
InitCalls ==
    /\ InitPriceTables
    /\ InitManager({Config(0, 0)})
    /\ InitDownloadObject
    /\ InitDownloader
    /\ InitSlabsForDownload
    /\ sdl = NoSdl
    /\ tfd = NoTfd
    /\ want = {}
    /\ fq = NoFq
    /\ spd = NoSpd
    /\ mig = NoMig
    /\ hs = NoHs

\* the slab downloads, everything else at rest
InitDownloads ==
    /\ InitPriceTables
    /\ InitDownloadObject
    /\ InitDownloader
    /\ sfd = NoSfd
    /\ InitSlabDownload
    /\ tfd = NoTfd
    /\ want = {}
    /\ fq = NoFq
    /\ spd = NoSpd
    /\ mig = NoMig
    /\ hs = NoHs

SpecSlabDownload == InitDownloads /\ [][NextSlabDownload]_vars

SpecSlabRefresh == InitDownloads /\ [][NextSlabRefresh]_vars

\* the slab downloads whose tokens are counted: every host with a
\* downloader, overdrive off or on
InitTokens ==
    /\ InitDownloads
    /\ AllDownloaders
    /\ mgrConfig \in {Config(0, 0), Config(1, 1)}

SpecSlabTokens == InitTokens /\ [][NextSlabTokens]_vars

\* a downloader that tracks its failures, everything else at rest
InitTracking ==
    /\ InitPriceTables
    /\ InitManager({Config(0, 0)})
    /\ InitDownloadObject
    /\ InitDownloader
    /\ sfd = NoSfd
    /\ sdl = NoSdl
    /\ InitTrackFailure
    /\ want = {}
    /\ fq = NoFq
    /\ spd = NoSpd
    /\ mig = NoMig
    /\ hs = NoHs

SpecTrackFailure == InitTracking /\ [][NextTrackFailure]_vars

\* the calls of downloadSpeed, everything else at rest
InitSpeeds ==
    /\ InitPriceTables
    /\ InitManager({Config(0, 0)})
    /\ InitDownloadObject
    /\ InitDownloader
    /\ sfd = NoSfd
    /\ sdl = NoSdl
    /\ tfd = NoTfd
    /\ want = {}
    /\ fq = NoFq
    /\ InitDownloadSpeed
    /\ mig = NoMig
    /\ hs = NoHs

\* the queue of a downloader request by request, everything else at rest
InitQueues ==
    /\ InitPriceTables
    /\ InitManager({Config(0, 0)})
    /\ InitDownloadObject
    /\ InitDownloader
    /\ sfd = NoSfd
    /\ sdl = NoSdl
    /\ tfd = NoTfd
    /\ want = {}
    /\ InitQueue
    /\ spd = NoSpd
    /\ mig = NoMig
    /\ hs = NoHs

SpecQueue == InitQueues /\ [][NextQueue]_vars

\* the queue with the scheduling of the downloader's goroutines:
\* processQueue, the workers and the goroutines that keep the requests
\* coming take the steps they can take, and the host calls return
FairQueue ==
    InitQueues /\ [][NextQueue]_vars
        /\ WF_vars(WaitForWork) /\ WF_vars(FillBatch) /\ WF_vars(SendBatch)
        /\ WF_vars(FeederPop) /\ WF_vars(FeederSend)
        /\ WF_vars(OldFeederPop) /\ WF_vars(WaitForDone)
        /\ \A w \in BatchWorkers :
              WF_vars(Executed(w)) /\ WF_vars(WorkerReturns(w))

\* the migrator, everything else at rest
InitMigrations ==
    /\ InitPriceTables
    /\ InitManager({Config(0, 0)})
    /\ InitDownloadObject
    /\ InitDownloader
    /\ sfd = NoSfd
    /\ sdl = NoSdl
    /\ tfd = NoTfd
    /\ want = {}
    /\ fq = NoFq
    /\ spd = NoSpd
    /\ InitMigrator
    /\ hs = NoHs

SpecMigrator == InitMigrations /\ [][NextMigrator]_vars

\* a contract store, everything else at rest
InitStores ==
    /\ InitPriceTables
    /\ InitManager({Config(0, 0)})
    /\ InitDownloadObject
    /\ InitDownloader
    /\ sfd = NoSfd
    /\ sdl = NoSdl
    /\ tfd = NoTfd
    /\ want = {}
    /\ fq = NoFq
    /\ spd = NoSpd
    /\ mig = NoMig
    /\ InitContractStore

SpecContractStore == InitStores /\ [][NextContractStore]_vars

SpecDownloadSpeed == InitSpeeds /\ [][NextDownloadSpeed]_vars

SpecSlabsForDownload == InitCalls /\ [][NextSlabsForDownload]_vars

SpecPriceTables == Init /\ [][NextPriceTables]_vars

SpecManager == Init /\ [][NextManager]_vars

SpecDownloader == Init /\ [][NextDownloader]_vars

SpecDownloadObject == Init /\ [][NextDownloadObject]_vars
\* the downloader with the scheduling of its goroutines: processQueue, the
\* workers and the goroutines that keep the requests coming take the steps
\* they can take, and execute returns
FairDownloader ==
    Init /\ [][NextDownloader]_vars
         /\ WF_vars(waitForWork) /\ WF_vars(startBatch) /\ WF_vars(sendBatch)
         /\ WF_vars(\E w \in Workers : executed(w))
         /\ WF_vars(\E w \in Workers : workerReturns(w))
         /\ WF_vars(feederPop) /\ WF_vars(feederSend)
         /\ WF_vars(oldFeederPop) /\ WF_vars(waitForDone)

\* DownloadObject with the scheduling of its goroutines: a select with a
\* case that stays ready takes a case, the deferred calls run, the goroutine
\* launching the slab downloads and the slab downloads take the steps they
\* can take, and every request is answered
FairDownloadObject ==
    Init /\ [][NextDownloadObject]_vars
         /\ WF_vars(collectOther) /\ WF_vars(returnDeferred)
         /\ WF_vars(launchNextSlab)
         /\ \A i \in SlabIdx :
               /\ WF_vars(downloadSlab(i))
               /\ WF_vars(\E ok \in BOOLEAN : collectResponse(i, ok))
               /\ WF_vars(collectSlab(i))
               /\ WF_vars(respondSent(i))

SpecDownloads == Init /\ [][NextDownloads]_vars

\* the calls with the scheduling of the slab downloads: the goroutine of a
\* slab download that can take a step on its own eventually takes one
FairDownloads ==
    SpecDownloads
        /\ \A i \in SlabIdx :
              WF_vars(downloadSlab(i) \/ loopAbort(i) \/ respondCtxDone(i)
                         \/ respondSent(i))

SpecLackingHosts == Init /\ [][NextLackingHosts]_vars

---------------------------------------------------------------------------
(***************************************************************************)
(* Properties                                                              *)
(***************************************************************************)

InTransport(h) ==
    {p \in Callers : callPc[p] = "upd_rpc" /\ callHost[p] = h}

LeaderRunning(p) == callPc[p] \in {"upd_rpc", "upd_lock", "upd_store"}

\* C1: for every host, at most one transport-level price-table refresh is
\* in flight at any time, whatever the interleaving of the Update calls.
C1_SingleFlight ==
    \A h \in Hosts : Cardinality(InTransport(h)) <= 1

\* a refresh is in flight while a second Update call is blocked on it
C1_Witness ==
    \E p, q \in Callers :
        /\ callPc[p] = "upd_rpc"
        /\ callPc[q] = "upd_wait"
        /\ callHost[p] = callHost[q]
        /\ callOngoing[q] = callOngoing[p]

\* C2 (as claimed): a waiter that returns through <-ongoing.done returns
\* exactly what the leader of that update returned: the same price table
\* on success, the same error on failure.
C2_WaiterGetsLeaderResult ==
    \A p, q \in Callers :
        ( /\ callRet[p].role = "waiter"
          /\ callRet[p].err # ErrWaiterTimeout
          /\ callRet[q].role = "leader"
          /\ callRet[q].upd = callRet[p].upd )
        => /\ callRet[p].kind = callRet[q].kind
           /\ callRet[p].pt = callRet[q].pt
           /\ callRet[p].err = callRet[q].err

\* C3: the step in which a waiter gives up on a cancelled context returns
\* an error to that waiter and touches nothing of the refresh: the cache
\* entry, ongoingUpdate, the update object and every other caller
\* (the leader included) are as before; and a running leader can always
\* take its next step, whatever its waiters did.
C3_WaiterCancelKeepsLeader ==
    /\ [][\A p \in Callers :
            ( /\ callPc[p] = "upd_wait"
              /\ callCtxDone[p]
              /\ ~updates[callOngoing[p]].done
              /\ callPc'[p] = "returned" )
            => /\ callRet'[p].kind = "err"
               /\ callRet'[p].err = ErrWaiterTimeout
               /\ ongoingUpdate' = ongoingUpdate
               /\ updates' = updates
               /\ ptPt' = ptPt
               /\ ptExpiry' = ptExpiry
               /\ \A q \in Callers \ {p} :
                     /\ callPc'[q] = callPc[q]
                     /\ callCtxDone'[q] = callCtxDone[q]
                     /\ callErr'[q] = callErr[q]]_vars
    /\ [](\A q \in Callers :
            (LeaderRunning(q) /\ ~ptPanicked)
            => /\ ongoingUpdate[callHost[q]] = callOngoing[q]
               /\ \/ ENABLED TransportReturn(q)
                  \/ ENABLED LeaderStorePt(q)
                  \/ ENABLED LeaderFinish(q)
                  \/ \E r \in Callers : ENABLED LeaderFinish(r))

\* a waiter timed out on an update whose leader then succeeded, stored the
\* price table and cleared ongoingUpdate
C3_Witness ==
    \E p, q \in Callers :
        /\ callRet[p].role = "waiter"
        /\ callRet[p].err = ErrWaiterTimeout
        /\ callRet[q].role = "leader"
        /\ callRet[q].upd = callRet[p].upd
        /\ callRet[q].kind = "ok"
        /\ ptPt[callHost[q]] = callRet[q].pt
        /\ ongoingUpdate[callHost[q]] = None

\* C4: a successful refresh stores the new price table and
\* expiry = now + Validity; a failed one leaves both as they were; either
\* way the leader clears ongoingUpdate when it returns, and ongoingUpdate is
\* set only while a leader is running (so a later Update refreshes anew).
C4_UpdateOutcome ==
    /\ [][\A p \in Callers :
            LET h == callHost[p] IN
            /\ (callPc[p] = "upd_lock" /\ callPc'[p] = "upd_store")
               => /\ ptPt'[h] = (IF callErr[p] = Nil THEN callHpt[p] ELSE ptPt[h])
                  /\ ptExpiry' = ptExpiry
            /\ (callPc[p] = "upd_store" /\ callPc'[p] = "returned")
               => /\ ptPt' = ptPt
                  /\ ptExpiry'[h] = (IF callErr[p] = Nil
                                     THEN now + callHpt[p].validity
                                     ELSE ptExpiry[h])
                  /\ ongoingUpdate'[h] = None
                  /\ callRet'[p].kind = (IF callErr[p] = Nil THEN "ok" ELSE "err")]_vars
    /\ [](\A h \in Hosts :
            ongoingUpdate[h] # None
            => \E p \in Callers :
                 /\ LeaderRunning(p)
                 /\ callHost[p] = h
                 /\ callOngoing[p] = ongoingUpdate[h])

\* a refresh failed after an earlier one had succeeded: the cached table is
\* still the earlier one, and the failed refresh was a second transport call
C4_Witness ==
    \E p, q \in Callers :
        /\ callRet[p].role = "leader" /\ callRet[p].kind = "ok"
        /\ callRet[q].role = "leader" /\ callRet[q].kind = "err"
        /\ callRet[q].upd > callRet[p].upd
        /\ callHost[p] = callHost[q]
        /\ ptPt[callHost[p]] = callRet[p].pt
        /\ ptExpiry[callHost[p]] > StartTime
        /\ ongoingUpdate[callHost[p]] = None
        /\ rpcCount[callHost[p]] = 2

\* C5 (as claimed): PriceTable reports a table valid only when one is cached
\* and now < expiry - leeway (read while no leader is storing a new entry).
C5_ValidOnlyBeforeLeeway ==
    [][\A p \in Callers :
         ( /\ callPc[p] = "idle"
           /\ callRet'[p].kind = "pricetable"
           /\ ptMu[callHost'[p]] = None )
         => (callRet'[p].valid
             => /\ ptPt[callHost'[p]] # NoPt
                /\ now < ptExpiry[callHost'[p]] - priceTableValidityLeeway)]_vars

\* C9 (as claimed): a second Stop does not fail and changes nothing that the
\* first Stop had not already done.
C9_StopIdempotent ==
    [][(mgrStopped /\ stopCalls' = stopCalls + 1)
       => /\ mgrPanic' = "none"
          /\ mgrStopped' = mgrStopped
          /\ dlStopped' = dlStopped
          /\ downloaders' = downloaders]_vars


\* C6: within one DownloadObject call the slabs are recovered into the sink
\* in strictly increasing slab index order, each exactly once, whatever the
\* order the responses arrive in: the sink holds the indices 0, 1, 2, ... up
\* to respIndex, and a buffered response is one not written yet
C6_RecoveredInOrder ==
    /\ \A k \in 1..Len(sink) : sink[k] = k - 1
    /\ doPc = "collect" => /\ Len(sink) = respIndex
                           /\ \A j \in responses : j > respIndex

\* a response arrived ahead of its turn and is buffered, after slab 0 was
\* written and before its predecessor has arrived
C6_Witness ==
    /\ Len(sink) >= 1
    /\ respIndex \notin responses
    /\ \E j \in responses : j > respIndex

\* C7: during a DownloadObject call on a manager running nothing else, the
\* slab downloads registered as ongoing never exceed
\* maxConcurrentSlabsPerDownload
C7_OngoingWithinLimit ==
    doPc = "collect" => Cardinality(mgrOngoing) <= maxConcurrentSlabsPerDownload

\* C10: DownloadObject with length = 0 returns success at once, with no
\* refresh of the downloaders and no slab download started, for any object
\* and offset
C10_ZeroLengthReturnsAtOnce ==
    (doPc # "idle" /\ doArgs.length = 0)
        => /\ doPc = "returned"
           /\ doRet = "ok"
           /\ refreshCalls = 0
           /\ \A i \in SlabIdx : slabDl[i].pc = "none"

\* C8: on a downloader no more than maxConcurrentSectorsPerHost sector
\* requests are executing at any time, across the successive batches of
\* processQueue: a batch is filled only when no worker of the batch before
\* it is left
C8_ExecutingWithinLimit ==
    /\ Cardinality({w \in Workers : worker[w] = "executing"})
           <= maxConcurrentSectorsPerHost
    /\ pqPc = "fill" => \A w \in Workers : worker[w] \in {"none", "exited"}

\* a later batch has as many requests executing as the limit allows
C8_Witness ==
    /\ batches >= 2
    /\ Cardinality({w \in Workers : worker[w] = "executing"})
           = maxConcurrentSectorsPerHost

\* the returned slices are a window S[a..b] of the slices S: the same slabs
\* in the same order, only the first and the last one trimmed
IsWindow(out, S) ==
    \E a \in 1..Len(S) :
       /\ a + Len(out) - 1 <= Len(S)
       /\ \A k \in 1..Len(out) :
            /\ out[k].Shards = S[a + k - 1].Shards
            /\ out[k].MinShards = S[a + k - 1].MinShards
            /\ (1 < k /\ k < Len(out)) => out[k] = S[a + k - 1]

\* C11: for every slab sequence S and every range [o, o + l)
\* inside the object, slabsForDownload(S, o, l) returns slices whose lengths
\* sum to l and that are a contiguous window of S
C11_SumAndWindow ==
    sfd.called =>
        /\ sfd.panic = "none"
        /\ SumLengths(sfd.out) = sfd.length
        /\ IsWindow(sfd.out, sfd.slabs)

\* the requests of the slab download launched so far that satisfy P
Launched(P(_)) == {k \in ShardIdx : sdl.reqs[k].n > 0 /\ P(sdl.reqs[k].req)}

\* C12: a downloadShards that returns successfully has numCompleted >=
\* minShards, and the shard matrix it returns has exactly numCompleted
\* non-empty entries, entry i being the sector with the root of shard i
C12_SuccessfulResult ==
    (sdl.pc \in {"cancel", "returned"} /\ sdl.ret = "ok") =>
        /\ sdl.numCompleted >= sdl.minShards
        /\ Cardinality({i \in ShardIdx : sdl.sectors[i] # 0}) = sdl.numCompleted
        /\ \A i \in ShardIdx : sdl.sectors[i] \in {0, i}

\* a slab download that returned successfully after an error response and
\* with more requests launched than MinShards
C12_Witness ==
    /\ sdl.pc = "returned"
    /\ sdl.ret = "ok"
    /\ sdl.errs >= 1
    /\ sdl.numLaunched > sdl.minShards
    /\ sdl.minShards >= 2

\* C13: in every state of a slab download numInflight equals numLaunched
\* minus the responses received, successes and errors; it never underflows
C13_InflightAccounting ==
    sdl.pc # "none" =>
        /\ sdl.numInflight = sdl.numLaunched - (sdl.numCompleted + sdl.errs)
        /\ sdl.numInflight <= MaxShards

\* the overdrive goroutine launched a request (no response was an error
\* yet) while the loop has received a response and waits for the next
C13_Witness ==
    /\ sdl.pc = "select"
    /\ sdl.errs = 0
    /\ sdl.numCompleted >= 1
    /\ Launched(LAMBDA r : r.overdrive) # {}
    /\ sdl.numInflight >= 2

\* C14: within one slab download no host gets more than one primary
\* (non-overdrive) request, wherever the shards of the slab are stored
C14_OnePrimaryPerHost ==
    sdl.pc # "none" =>
        \A h \in HostKeys :
            Cardinality(Launched(LAMBDA r : r.hk = h /\ ~r.overdrive)) <= 1

\* C15: nextRequest hands out every shard index at most once, so no two
\* requests carry the same index, and sectors[i] is set at most once
C15_IndexHandedOutOnce ==
    sdl.pc # "none" =>
        /\ \A i \in ShardIdx : sdl.handed[i] <= 1 /\ sdl.written[i] <= 1
        /\ \A i \in ShardIdx : sdl.reqs[i].n <= 1

\* every shard was handed out, by the primary dispatch, as the replacement
\* of a failed request and by the overdrive goroutine, and sectors were set
C15_Witness ==
    /\ sdl.pc # "none"
    /\ \A i \in ShardIdx : sdl.handed[i] = 1
    /\ sdl.errs = 1
    /\ sdl.numLaunched = MaxShards
    /\ sdl.minShards = 1
    /\ sdl.numCompleted >= 1

\* C16: once numCompleted >= minShards no request is launched for the slab
\* any more and numLaunched, numInflight and numCompleted stay as they are
C16_TerminalOnceCompleted ==
    [][(sdl.pc # "none" /\ sdl.numCompleted >= sdl.minShards) =>
          /\ sdl'.reqs = sdl.reqs
          /\ sdl'.numLaunched = sdl.numLaunched
          /\ sdl'.numInflight = sdl.numInflight
          /\ sdl'.numCompleted = sdl.numCompleted]_vars

\* slab i of the download has fewer than MinShards shards on hosts of the
\* contracts
lacking(i) ==
    /\ i < Len(doSlabs)
    /\ Cardinality({k \in 1..Len(doSlabs[i + 1].Shards) :
                       doSlabs[i + 1].Shards[k] \in doArgs.contracts})
           < doSlabs[i + 1].MinShards

\* C17: a slab with fewer than MinShards shards on hosts of the contracts
\* never gets a slab download (downloadSlab is what issues sector requests),
\* nor does any slab after it, so none at all when it is slab 0; and when
\* the consumer receives the response the producer sends for it,
\* DownloadObject returns "not enough hosts available to download the
\* slab: <available>/<MinShards>"
C17_NotEnoughHosts ==
    /\ [](\A i \in SlabIdx : lacking(i) =>
             \A j \in SlabIdx : j >= i => slabDl[j].pc = "none")
    /\ [][(prodPc = "senderr" /\ prodPc' = "exited") =>
             /\ lacking(slabIndex)
             /\ doPc' = "cancel"
             /\ doRet' = "not enough hosts available to download the slab: 1/2"]_vars

\* DownloadObject returned this error for the third slab, after the first
\* two slabs were written
C17_Witness ==
    /\ doPc = "returned"
    /\ doRet = "not enough hosts available to download the slab: 1/2"
    /\ lacking(2)
    /\ Len(sink) = 2
    /\ slabDl[2].pc = "none"

\* C18: the first slab error the consumer of DownloadObject receives, from a
\* slab download or from the producer, is fatal: DownloadObject returns that
\* error, and from then on the sink and the result stay as they are
C18_FirstErrorFatal ==
    [][/\ \A i \in SlabIdx :
             (slabDl[i].pc = "respond" /\ slabDl[i].err # Nil
                 /\ slabDl'[i].pc = "exit") =>
                 /\ doRet' = slabDl[i].err
                 /\ doPc' = "cancel"
                 /\ sink' = sink
       /\ (prodPc = "senderr" /\ prodPc' = "exited") =>
             /\ doRet' \notin {"none", "ok"}
             /\ doPc' = "cancel"
             /\ sink' = sink
       /\ doPc \in {"cancel", "returned"} =>
             /\ sink' = sink
             /\ doRet' = doRet
             /\ doPc' \in {"cancel", "returned", "panicked"}]_vars

\* DownloadObject returned the error of a slab while the download of the
\* first slab was still waiting for its sectors, or had its response ready
C18_Witness ==
    /\ doPc = "returned"
    /\ doRet = "failed to download slab"
    /\ slabDl[0].pc \in {"loop", "respond"}
    /\ Len(sink) = 0

\* the host is not to blame for err
Blameless(err) ==
    err \in {"balance insufficient", "price table expired",
             "price table not found", "sector not found"}

\* C19: a call of trackFailure leaves consecutiveFailures at 0 after a
\* success; leaves consecutiveFailures and the samples of the latency
\* estimator as they are after an error the host is not to blame for; adds 1
\* to consecutiveFailures and one sample of one hour after any other error;
\* and stats reports healthy exactly when consecutiveFailures is 0
C19_TrackFailure ==
    [][tfd'.calls = tfd.calls + 1 =>
          /\ tfd'.err = Nil => tfd'.consecutiveFailures = 0
          /\ Blameless(tfd'.err) =>
                /\ tfd'.consecutiveFailures = tfd.consecutiveFailures
                /\ tfd'.statsSectorDownloadEstimateInMS
                       = tfd.statsSectorDownloadEstimateInMS
          /\ (tfd'.err # Nil /\ ~Blameless(tfd'.err)) =>
                /\ tfd'.consecutiveFailures = tfd.consecutiveFailures + 1
                /\ tfd'.statsSectorDownloadEstimateInMS
                       = Append(tfd.statsSectorDownloadEstimateInMS, 3600000)
          /\ stats(tfd').healthy <=> tfd'.consecutiveFailures = 0]_vars

\* a failure, a success, two failures and then an error the host is not to
\* blame for
C19_Witness ==
    /\ tfd.calls = 5
    /\ tfd.err = "sector not found"
    /\ tfd.consecutiveFailures = 2
    /\ Len(tfd.statsSectorDownloadEstimateInMS) = 3
    /\ ~stats(tfd).healthy

\* the hosts with a downloader
WithDownloader == {h \in HostKeys : downloaders[h] # 0}

\* what C20 says of a call of refreshDownloaders, from the state before it
\* to the state after it
RefreshEffect ==
    LET before == WithDownloader
        after == {h \in HostKeys : downloaders'[h] # 0}
    IN  /\ after = want'
        /\ \A h \in before \ want' :
              /\ downloaders[h] \in dlStopped'
              /\ downloaders'[h] = 0
        /\ \A h \in want' \ before :
              /\ downloaders'[h] > Len(dlQueue)
              /\ downloaders'[h] \notin dlStopped'
              /\ dlQueue'[downloaders'[h]] = <<>>
              /\ \A g \in want' \ before : g # h => downloaders'[g] # downloaders'[h]
        /\ \A h \in before \cap want' :
              /\ downloaders'[h] = downloaders[h]
              /\ dlQueue'[downloaders[h]] = dlQueue[downloaders[h]]
              /\ (downloaders[h] \in dlStopped') = (downloaders[h] \in dlStopped)

\* C20: after refreshDownloaders(contracts) the hosts with a downloader are
\* the host keys of contracts: the downloaders of other hosts are stopped
\* and removed, every missing host has a new downloader of its own that
\* runs, and the downloaders still wanted are the same, queues unchanged
C20_RefreshFrame ==
    [][refreshCalls' = refreshCalls + 1 => RefreshEffect]_vars

\* C21: with maxOverdrive = 0 and no response an error, a slab download
\* launches no overdrive request, whenever the overdrive timer fires:
\* numLaunched stays within minShards, numOverdriving stays 0, and the slab
\* download that is not aborted returns successfully with numLaunched =
\* minShards
C21_NoOverdriveWithoutMaxOverdrive ==
    (sdl.pc # "none" /\ mgrConfig.maxOverdrive = 0 /\ sdl.errs = 0
        /\ AllDownloaders) =>
        /\ sdl.numLaunched <= sdl.minShards
        /\ sdl.numOverdriving = 0
        /\ Launched(LAMBDA r : r.overdrive) = {}
        /\ (sdl.pc = "returned"
              /\ sdl.ret \notin {"download stopped", "context canceled"}) =>
              /\ sdl.ret = "ok"
              /\ sdl.numLaunched = sdl.minShards

\* C25: in every state of a slab download the requests in flight stay within
\* maxOverdrive + (minShards - numCompleted), also when the timer fires while
\* the primary requests are being dispatched
C25_OverdriveCapped ==
    sdl.pc # "none" =>
        sdl.numInflight <=
            mgrConfig.maxOverdrive + (sdl.minShards - sdl.numCompleted)

\* the shards no nextRequest has handed out yet that are on a host with a
\* downloader
Unassigned ==
    {k \in ShardIdx : sdl.handed[k] = 0 /\ downloaders[sdl.shards[k]] # 0}

\* the requests whose response was an error
Failed == {k \in ShardIdx : sdl.reqs[k].state = "answered" /\ sdl.written[k] = 0}

\* the step of the receive loop that follows an error response with the slab
\* not done
Replaces == sdl.pc = "replace" /\ sdl'.pc # "replace"

\* what the receive loop launched in the step
Replaced == {k \in ShardIdx : sdl'.reqs[k].n = sdl.reqs[k].n + 1}

\* C26: after an error response with the slab not done the receive loop
\* dispatches exactly one replacement request, flagged overdrive, provided a
\* shard on a host with a downloader is unassigned; the slab download fails
\* with the collected errors only when nothing is in flight and numCompleted
\* is below minShards, and the error carries every host error collected
C26_ReplacementAndFailure ==
    /\ [][(sdl.pc = "select" /\ sdl'.pc # "select" /\ sdl'.errs = sdl.errs + 1
              /\ ~sdl'.done) => sdl'.pc = "replace"]_vars
    /\ [][(Replaces /\ Unassigned # {}) =>
              /\ Cardinality(Replaced) = 1
              /\ \A k \in Replaced : sdl'.reqs[k].req.overdrive
              /\ sdl'.numLaunched = sdl.numLaunched + 1]_vars
    /\ [][(sdl.pc # "none" /\ sdl.ret = "none"
              /\ sdl'.ret = "failed to download slab") =>
              /\ sdl.numInflight = 0
              /\ sdl.numCompleted < sdl.minShards
              /\ sdl'.retErrs = Cardinality(Failed)]_vars

\* C27: a slab download sends at most one token on nextSlabChan; it sends it
\* with the successful response that made numCompleted + maxOverdrive reach
\* minShards or later, or after the loop with the slab done; and a send that
\* finds the buffer full does not block the loop
C27_OneToken ==
    /\ [](sdl.pc # "none" => sdl.tokens <= 1)
    /\ [][(sdl.pc # "none" /\ sdl'.tokens # sdl.tokens) =>
             /\ sdl'.tokens = sdl.tokens + 1
             /\ \/ /\ sdl'.numCompleted = sdl.numCompleted + 1
                   /\ sdl'.numCompleted + mgrConfig.maxOverdrive >= sdl.minShards
                \/ /\ sdl.pc = "loop"
                   /\ sdl.done
                   /\ sdl.numCompleted >= sdl.minShards]_vars
    /\ []((sdl.pc = "loop" /\ nextSlabChan = 1) => ENABLED loopCondition)
    /\ []((sdl.pc = "replace" /\ nextSlabChan = 1) => ENABLED replaceRequest)
    /\ []((sdl.pc = "select" /\ nextSlabChan = 1) =>
             \A k \in ShardIdx :
                 sdl.reqs[k].state = "queued" => ENABLED selectResponse(k, TRUE))

\* the slab download sent its token after the loop, the buffer having been
\* full when the loop tried
C27_Witness ==
    /\ sdl.pc = "returned"
    /\ sdl.tokens = 1
    /\ ~sdl.triggered
    /\ sdl.minShards = 2
    /\ mgrConfig.maxOverdrive = 1

\* C29: downloadSpeed returns a value for every age of the slab download,
\* also one below a millisecond: it never divides by zero
C29_SpeedNeverDividesByZero ==
    (spd.called /\ "panic" \in DOMAIN spd) => spd.panic = "none"

\* C30: no goroutine sends on responseChan after DownloadObject has closed
\* it, whatever the exit path of DownloadObject and the interleaving: the
\* goroutine launching the slab downloads and the slab downloads that still
\* hold a response do not perform the send
C30_NoSendOnClosed ==
    doPc # "idle" => mgrPanic # PanicSend

\* C22: once the caller's ctx is cancelled while DownloadObject runs,
\* DownloadObject eventually returns; returning before every slab is written
\* it returns an error; and nothing is written to the sink after it returned
C22_CancelReturns ==
    /\ (doPc = "collect" /\ doCtxDone) ~> (doPc = "returned")
    /\ []((doPc = "returned" /\ Len(sink) < Len(doSlabs)) => doRet # "ok")
    /\ [][doPc = "returned" => sink' = sink]_vars

\* C23: once the downloader is stopped, none of its goroutines stays blocked
\* on a channel operation forever: processQueue returns, every worker of the
\* batch leaves, and the goroutine that keeps the requests coming is not
\* left holding a request it cannot send
C23_NoGoroutineBlockedForever ==
    /\ stopChan ~> (pqPc = "returned")
    /\ stopChan ~> (\A w \in Workers : worker[w] \in {"none", "exited"})
    /\ stopChan ~> (feeder # "hold")

\* slab download j of the object has got to where it sends its token: the
\* loop triggered the next slab, or the loop is over
Triggering(j) ==
    slabDl[j].triggered \/ slabDl[j].pc \in {"respond", "exit", "finished"}

\* C28: slab 0 is dispatched at once (if enough of its hosts have a
\* contract); slab i+1 is dispatched only after a token of a slab dispatched
\* before, so one of these has got to where it sends its token; and unless
\* DownloadObject ends with an error, every slab is eventually dispatched
C28_GatedAndLive ==
    /\ [](doPc = "collect" => (slabIndex >= 1 \/ prodPc = "senderr"))
    /\ [][(doPc # "idle" /\ slabIndex >= 1 /\ slabIndex' = slabIndex + 1) =>
             \E j \in 0..(slabIndex - 1) : Triggering(j)]_vars
    /\ (doPc = "collect") ~>
           (slabIndex = Len(doSlabs) \/ doRet # "none" \/ mgrPanic # "none")

\* C24: the requests of a downloader are taken off its queue in the order
\* of their enqueue, and when a request starts executing, every request
\* enqueued before it that is not cancelled has been taken off the queue
C24_Fifo ==
    /\ [](fq.pc # "none" =>
            \A a, b \in 1..Len(fq.popped) :
                a < b => fq.popped[a] < fq.popped[b])
    /\ [][fq.pc # "none" =>
            \A j \in fq'.started \ fq.started :
                \A i \in 1..(j - 1) :
                    i \notin fq'.cancelled =>
                        \E a \in 1..Len(fq'.popped) : fq'.popped[a] = i]_vars

\* request 3 is executing, popped by the goroutine that keeps the requests
\* coming; request 1 was skipped as cancelled; requests keep being queued
C24_Witness ==
    /\ fq.pc = "waitForDone"
    /\ 3 \in fq.started
    /\ 1 \in fq.cancelled
    /\ 1 \notin fq.started
    /\ Len(fq.popped) = 3
    /\ Len(fq.queue) = 1

\* the step closes d.stopChan of a downloader that is closed already: a
\* refreshDownloaders that prunes the downloader, or the first Stop, which
\* closes the stopChan of every downloader of the map
ClosedAgain ==
    \E h \in HostKeys :
        /\ downloaders[h] # 0
        /\ downloaders[h] \in dlStopped
        /\ \/ refreshCalls' # refreshCalls /\ h \notin want'
           \/ stopCalls' # stopCalls /\ ~mgrStopped

\* C31: whatever the sequence of Stop and refreshDownloaders calls, the
\* stopChan of a downloader is closed at most once: a downloader stopped by
\* Stop is not closed again when a later refreshDownloaders prunes it
C31_StopChanClosedOnce == [][~ClosedAgain]_vars

\* C32: no wake-up is lost: unless the downloader is stopped, every request
\* enqueued whose ctx is not cancelled is eventually executed
C32_NoLostWakeup ==
    \A r \in 1..MaxReqs :
        [](r <= fq.n => <>(r \in fq.started \/ r \in fq.cancelled \/ fq.stopped))

\* the second request was enqueued and executed, the queue is empty and
\* processQueue waits for work again, its signal taken
C32_Witness ==
    /\ fq.pc = "wait"
    /\ ~fq.stopped
    /\ fq.n = 2
    /\ fq.started = {1, 2}
    /\ fq.queue = <<>>
    /\ fq.signal = 0

\* C33: every request enqueued on a downloader that is not stopped is
\* eventually executed, and so answered on its response channel, or has its
\* ctx cancelled, also when the downloader is stopped afterwards
C33_EveryRequestAnswered ==
    \A r \in 1..MaxReqs :
        [](r <= fq.n /\ ~fq.stopped => <>(r \in fq.started \/ r \in fq.cancelled))

\* C34: a request that failed because its ctx was cancelled leaves the
\* host's consecutiveFailures and its latency estimator as they were
C34_CancelledNotBlamed ==
    [][tfd'.calls # tfd.calls /\ tfd'.err = ContextCanceled
          => /\ tfd'.consecutiveFailures = tfd.consecutiveFailures
             /\ tfd'.statsSectorDownloadEstimateInMS
                    = tfd.statsSectorDownloadEstimateInMS]_vars

\* the slab downloads whose downloadSlab call has registered and not ended
Registered == {i \in SlabIdx : slabDl[i].pc \in {"loop", "respond", "exit"}}

\* no goroutine of a slab download is left
SlabsEnded == \A i \in SlabIdx : slabDl[i].pc \in {"none", "finished"}

\* C35: while the process runs, the ongoing set holds the slabs whose
\* downloadSlab call has not ended, so it is empty when they all have; and
\* once DownloadObject or DownloadSlab has returned, they all end
C35_OngoingCleanedUp ==
    /\ [](Running => mgrOngoing = Registered)
    /\ [](Running /\ doPc \in {"idle", "returned"} /\ SlabsEnded
             => mgrOngoing = {})
    /\ (doPc = "returned" ~> SlabsEnded)

\* the call has returned, a slab download has registered and ended and none
\* is left
C35_Witness ==
    /\ doPc = "returned"
    /\ SlabsEnded
    /\ \E i \in SlabIdx : slabDl[i].pc = "finished"
    /\ mgrOngoing = {}

\* C36: for length > 0 and a range inside the object, every slice that
\* slabsForDownload returns has Length > 0
C36_OnlyCoveredSlices ==
    sfd.called /\ sfd.panic = "none" /\ sfd.length > 0
        => \A k \in 1..Len(sfd.out) : sfd.out[k].Length > 0

\* an Update of host h has stored the new pt.pt and not yet its expiry
HalfUpdated(h) ==
    \E q \in Callers :
        callPc[q] = "upd_store" /\ callHost[q] = h /\ callErr[q] = Nil

\* C37: PriceTable(hk) never reads the pair (pt, expiry) of a host while an
\* Update has stored only one of the two
C37_ConsistentPair ==
    [][\A p \in Callers :
          callPc[p] = "idle" /\ callPc'[p] = "returned"
              /\ callRet'[p].role = "reader"
          => ~HalfUpdated(callHost'[p])]_vars

\* the runs of the migrator: from the call that set m.migrating to the
\* goroutine that resets it
ActiveRuns == mig.starting + mig.running + mig.ending

\* C38: at most one performMigrations run is active; migrating is true
\* exactly while a run is active and is reset when the run ends; a call made
\* while migrating is true, or the autopilot stopped, starts nothing and
\* leaves migratingLastStart unchanged
C38_OneMigrationRun ==
    /\ [](mig.running <= 1 /\ ActiveRuns <= 1)
    /\ [](mig.migrating <=> ActiveRuns = 1)
    /\ [][mig'.ending < mig.ending => ~mig'.migrating]_vars
    /\ [][mig.migrating \/ mig.stopped
             => /\ mig'.starting <= mig.starting
                /\ mig'.migratingLastStart = mig.migratingLastStart]_vars

\* a call was refused while a run started earlier is inside
\* performMigrations
C38_Witness ==
    /\ mig.last = "refused"
    /\ mig.migrating
    /\ mig.running = 1
    /\ ~mig.stopped
    /\ mig.migratingLastStart < mig.now

\* C39: on a store made without a file, SetHostSet does not fail; after it
\* HostSet(name) returns the hosts set, and a name set to no hosts is not
\* among HostSets()
C39_SetThenGet ==
    hs.fresh /\ hs.op = "SetHostSet"
        => /\ hs.panic = "none"
           /\ hs.kind = "ephemeral" => hs.err = Nil
           /\ IF hs.hosts # <<>>
              THEN HostSet(hs, hs.name) = hs.hosts
              ELSE hs.name \notin HostSets(hs)

====
